---- MODULE Spec2Model ----
(***************************************************************************)
(* Model of the crypto query backend: the POST /query handler              *)
(* (src/src/routes/query.ts), the intent parser and answer formatter       *)
(* (src/src/services/openai.ts), the token services (src/unnamed/part_001  *)
(* = services/pumpfun.ts, src/src/services/bonk.ts), the price, DeFi and   *)
(* market services (src/src/services/priceData.ts, defilamma.ts,           *)
(* src/unnamed/part_002 = services/marketData.ts) and POST /simple-query   *)
(* (src/unnamed/part_000 = routes/simple.ts).                              *)
(*                                                                         *)
(* JavaScript objects are TLA+ records whose DOMAIN is the set of own      *)
(* properties; a property that is not in the DOMAIN reads as undefined.    *)
(* Numbers are integers, null is JSNull.  Strings are TLA+ strings, on     *)
(* which Len, SubSeq and \o act character by character.                    *)
(***************************************************************************)
EXTENDS Integers, Sequences, FiniteSets, TLC

VARIABLES
  query,        \* the query string handed to the parser
  results,      \* parseQuery: one entry per invocation, in call order
  raw,          \* validateAndCleanData: the data argument
  cleaned,      \* validateAndCleanData: <<>>, then <<the sequence returned>>
  route,        \* the route the request was posted to
  request,      \* req.body.query
  pc,           \* where the handler stands: the await it will resume from
  startTime,    \* const startTime of the handler
  now,          \* Date.now()
  parsedQuery,  \* const parsedQuery of the handler
  data,         \* let data of the handler
  metadata,     \* let metadata of the handler
  response,     \* what res.status(..).json(..) sent; status 0 before
  calls,        \* services constructed and outbound requests made, in order
  probes,       \* the providers and generators the services called, in order,
                \* each with what it returned
  pending,      \* case 'both': the two promises handed to Promise.all
  invocations   \* concurrent requests: per invocation of the handler, the
                \* request and the variables of the handler's body

handlerVars ==
  <<route, request, pc, startTime, now, parsedQuery, data, metadata, response,
    calls, probes, pending, invocations>>

vars == <<query, results, raw, cleaned, route, request, pc, startTime, now,
          parsedQuery, data, metadata, response, calls, probes, pending,
          invocations>>

(***************************************************************************)
(* Bounds of the model.                                                    *)
(***************************************************************************)
MaxInvocations == 2
MaxFragments == 5

(***************************************************************************)
(* JavaScript values.                                                      *)
(***************************************************************************)
JSNull == [t |-> "null"]
JSUndefined == [t |-> "undefined"]
NaN == [t |-> "nan"]

(***************************************************************************)
(* String.prototype.includes, toLowerCase and trim.                        *)
(***************************************************************************)
Includes(s, kw) ==
  \E i \in 1..(Len(s) - Len(kw) + 1) : SubSeq(s, i, i + Len(kw) - 1) = kw

UpperCase == <<"A","B","C","D","E","F","G","H","I","J","K","L","M",
               "N","O","P","Q","R","S","T","U","V","W","X","Y","Z">>
LowerCase == <<"a","b","c","d","e","f","g","h","i","j","k","l","m",
               "n","o","p","q","r","s","t","u","v","w","x","y","z">>

LowerChar(c) ==
  IF \E i \in 1..26 : UpperCase[i] = c
  THEN LowerCase[CHOOSE i \in 1..26 : UpperCase[i] = c]
  ELSE c

RECURSIVE ToLowerCase(_)
ToLowerCase(s) ==
  IF Len(s) = 0 THEN ""
  ELSE LowerChar(SubSeq(s, 1, 1)) \o ToLowerCase(SubSeq(s, 2, Len(s)))

UpperChar(c) ==
  IF \E i \in 1..26 : LowerCase[i] = c
  THEN UpperCase[CHOOSE i \in 1..26 : LowerCase[i] = c]
  ELSE c

RECURSIVE ToUpperCase(_)
ToUpperCase(s) ==
  IF Len(s) = 0 THEN ""
  ELSE UpperChar(SubSeq(s, 1, 1)) \o ToUpperCase(SubSeq(s, 2, Len(s)))

IsSpace(c) == c = " "

RECURSIVE TrimStart(_)
TrimStart(s) ==
  IF Len(s) > 0 /\ IsSpace(SubSeq(s, 1, 1))
  THEN TrimStart(SubSeq(s, 2, Len(s))) ELSE s

RECURSIVE TrimEnd(_)
TrimEnd(s) ==
  IF Len(s) > 0 /\ IsSpace(SubSeq(s, Len(s), Len(s)))
  THEN TrimEnd(SubSeq(s, 1, Len(s) - 1)) ELSE s

Trim(s) == TrimEnd(TrimStart(s))

(***************************************************************************)
(* OpenAIService.parseQuery, catch branch: the keyword classifier.         *)
(***************************************************************************)
isDeFiQuery(lowerQuery) ==
  \/ Includes(lowerQuery, "defi") \/ Includes(lowerQuery, "tvl")
  \/ Includes(lowerQuery, "yield") \/ Includes(lowerQuery, "apy")
  \/ Includes(lowerQuery, "lending") \/ Includes(lowerQuery, "protocol")

isNewsQuery(lowerQuery) ==
  \/ Includes(lowerQuery, "news") \/ Includes(lowerQuery, "update")
  \/ Includes(lowerQuery, "announcement") \/ Includes(lowerQuery, "development")

isTrendingQuery(lowerQuery) ==
  \/ Includes(lowerQuery, "trending") \/ Includes(lowerQuery, "hot")
  \/ Includes(lowerQuery, "popular") \/ Includes(lowerQuery, "buzz")

\* the regular expression /what is (sol|btc|eth|bitcoin|ethereum|solana)/i
WhatIsRegex(lowerQuery) ==
  \E c \in {"sol", "btc", "eth", "bitcoin", "ethereum", "solana"} :
    Includes(lowerQuery, "what is " \o c)

isPriceQuery(lowerQuery) ==
  \/ Includes(lowerQuery, "price") \/ Includes(lowerQuery, "current")
  \/ Includes(lowerQuery, "worth") \/ Includes(lowerQuery, "trading")
  \/ Includes(lowerQuery, "cost") \/ Includes(lowerQuery, "value")
  \/ WhatIsRegex(lowerQuery)

isSentimentQuery(lowerQuery) ==
  \/ Includes(lowerQuery, "sentiment") \/ Includes(lowerQuery, "bullish")
  \/ Includes(lowerQuery, "bearish") \/ Includes(lowerQuery, "mood")

\* the four case-insensitive tests that push onto cryptoSymbols, in order
cryptoSymbolsOf(lowerQuery) ==
  (IF Includes(lowerQuery, "sol") \/ Includes(lowerQuery, "solana")
     THEN <<"SOL">> ELSE <<>>)
  \o (IF Includes(lowerQuery, "btc") \/ Includes(lowerQuery, "bitcoin")
        THEN <<"BTC">> ELSE <<>>)
  \o (IF Includes(lowerQuery, "eth") \/ Includes(lowerQuery, "ethereum")
        THEN <<"ETH">> ELSE <<>>)
  \o (IF Includes(lowerQuery, "bonk") THEN <<"BONK">> ELSE <<>>)

\* let chain = undefined, then three successive assignments: the last
\* matching one wins
hasChain(lowerQuery) ==
  \/ Includes(lowerQuery, "solana") \/ Includes(lowerQuery, "ethereum")
  \/ Includes(lowerQuery, "polygon")

chainOf(lowerQuery) ==
  IF Includes(lowerQuery, "polygon") THEN "polygon"
  ELSE IF Includes(lowerQuery, "ethereum") THEN "ethereum"
  ELSE "solana"

\* the defi object literal: a chain property whose value is undefined
\* reads exactly as a missing one
WithChain(obj, lowerQuery) ==
  IF ~hasChain(lowerQuery) THEN obj
  ELSE [f \in DOMAIN obj \cup {"chain"} |->
          IF f = "chain" THEN chainOf(lowerQuery) ELSE obj[f]]

\* which of the early returns of the catch branch is taken
FallbackBranchSentimentFirst(lowerQuery) ==
  IF isPriceQuery(lowerQuery) THEN "price"
  ELSE IF isDeFiQuery(lowerQuery) THEN "defi"
  ELSE IF isNewsQuery(lowerQuery) THEN "news"
  ELSE IF isSentimentQuery(lowerQuery) THEN "sentiment"
  ELSE IF isTrendingQuery(lowerQuery) THEN "trending"
  ELSE "default"

FallbackBranch(lowerQuery) ==
  IF isPriceQuery(lowerQuery) THEN "price"
  ELSE IF isDeFiQuery(lowerQuery) THEN "defi"
  ELSE IF isNewsQuery(lowerQuery) THEN "news"
  ELSE IF isTrendingQuery(lowerQuery) THEN "trending"
  ELSE IF isSentimentQuery(lowerQuery) THEN "sentiment"
  ELSE "default"

FallbackIntent(q) ==
  LET lowerQuery == ToLowerCase(q)
      cryptoSymbols == cryptoSymbolsOf(lowerQuery)
      branch == FallbackBranch(lowerQuery)
  IN
  CASE branch = "price" ->
    [platform |-> "price", metric |-> "price", timeframe |-> 1,
     cryptoSymbols |-> IF Len(cryptoSymbols) > 0 THEN cryptoSymbols
                       ELSE <<"SOL">>]
  [] branch = "defi" ->
    WithChain(
      [platform |-> "defi",
       metric |-> IF Includes(lowerQuery, "apy") \/ Includes(lowerQuery, "yield")
                    THEN "apy"
                  ELSE IF Includes(lowerQuery, "tvl") THEN "tvl" ELSE "count",
       timeframe |-> 24,
       cryptoSymbols |-> cryptoSymbols],
      lowerQuery)
  [] branch = "news" ->
    [platform |-> "news", metric |-> "news", timeframe |-> 24,
     cryptoSymbols |-> cryptoSymbols, includeNews |-> TRUE]
  [] branch = "trending" ->
    [platform |-> "trending", metric |-> "sentiment", timeframe |-> 24,
     includeTrending |-> TRUE]
  [] branch = "sentiment" ->
    [platform |-> "general", metric |-> "sentiment", timeframe |-> 24,
     cryptoSymbols |-> cryptoSymbols, includeSentiment |-> TRUE]
  [] OTHER ->
    [platform |-> IF Includes(lowerQuery, "pumpfun") THEN "pumpfun"
                  ELSE IF Includes(lowerQuery, "bonk") THEN "bonk" ELSE "both",
     metric |-> IF Includes(lowerQuery, "mcap") \/ Includes(lowerQuery, "market cap")
                  THEN "mcap" ELSE "count",
     timeframe |-> IF Includes(lowerQuery, "hour") THEN 1 ELSE 24,
     comparison |-> Includes(lowerQuery, "vs") \/ Includes(lowerQuery, "compare"),
     cryptoSymbols |-> cryptoSymbols]

(***************************************************************************)
(* The chat-completion call as parseQuery sees it.  The promise rejects    *)
(* (network error, timeout) or resolves with a response; the response may  *)
(* lack the choices array, choices[0]?.message?.content may be undefined,   *)
(* null or a string, and a string may or may not be a JSON text.  A JSON    *)
(* text denotes one JSON value, which is what JSON.parse returns.           *)
(***************************************************************************)
Reject(why) == [kind |-> "reject", error |-> why]
NoChoices == [kind |-> "resolve", choices |-> FALSE]
Content(c) == [kind |-> "resolve", choices |-> TRUE, content |-> c]
Text(str) == [t |-> "text", len |-> Len(str), json |-> FALSE, s |-> str]
JSONText(v) == [t |-> "text", len |-> 1, json |-> TRUE, value |-> v]

\* !content
Falsy(c) == c.t \in {"undefined", "null"} \/ (c.t = "text" /\ c.len = 0)

\* JSON values a model answer can denote: intents of the documented shape,
\* the examples of the prompt (which carry no timeframe), and JSON values
\* that are not intents
EmptyObject == [f \in {} |-> 0]
ParsedValues ==
  { JSNull,
    EmptyObject,
    [platform |-> "solana", metric |-> "mcap"],
    [platform |-> "price", metric |-> "price", cryptoSymbols |-> <<"SOL">>],
    [platform |-> "pumpfun", metric |-> "count", threshold |-> 19000,
     timeframe |-> 1] }

FailedCompletions ==
  { Reject("network"), Reject("timeout"), NoChoices,
    Content(JSUndefined), Content(JSNull), Content(Text("")),
    Content(Text("Sure! Here is the JSON you asked for")) }

Completions == FailedCompletions \cup { Content(JSONText(v)) : v \in ParsedValues }

\* the try block of parseQuery throws
PrimaryFails(o) ==
  \/ o.kind = "reject"
  \/ ~o.choices            \* response.choices[0] on undefined: TypeError
  \/ Falsy(o.content)      \* throw new Error('No response from OpenAI')
  \/ ~o.content.json       \* JSON.parse: SyntaxError

parseQueryNoContentCheck(q, o) ==
  IF o.kind = "reject" \/ ~o.choices THEN FallbackIntent(q)
  ELSE IF Falsy(o.content) THEN EmptyObject
  ELSE IF ~o.content.json THEN FallbackIntent(q)
  ELSE o.content.value

parseQuery(q, o) ==
  IF PrimaryFails(o) THEN FallbackIntent(q) ELSE o.content.value

(***************************************************************************)
(* Queries.                                                                *)
(***************************************************************************)
MarketCapQuery ==
  "How many tokens reached over $19,000 mcap on pumpfun in the last hour?"

NamedQueries ==
  { MarketCapQuery,
    "What's the SOL price?",
    "What is ETH trading at?",
    "Top DeFi protocols by TVL in the last hour",
    "Best yield farming opportunities on Solana",
    "Recent crypto news about Bitcoin",
    "What's trending in crypto today?",
    "Market sentiment for Ethereum",
    "pumpfun vs bonk token counts",
    "Bonk tokens above 100k market cap" }

\* one fragment per keyword group, then window, platform and threshold
Fragments ==
  << "Price ", "TVL ", "news ", "hot ", "mood ", "hour ", "bonk ", "19k " >>

RECURSIVE FragmentQuery(_, _)
FragmentQuery(S, i) ==
  IF i > Len(Fragments) THEN ""
  ELSE (IF i \in S THEN Fragments[i] ELSE "") \o FragmentQuery(S, i + 1)

ParseQueries ==
  NamedQueries \cup
  { "show " \o FragmentQuery(S, 1) :
      S \in SUBSET (1..(IF MaxFragments < Len(Fragments) THEN MaxFragments
                        ELSE Len(Fragments))) }

(***************************************************************************)
(* Specification of parseQuery: up to MaxInvocations calls on one query,   *)
(* each with its own outcome of the chat-completion call.                  *)
(***************************************************************************)
\* no request is in progress
NoRequest ==
  /\ route = ""
  /\ request = JSUndefined
  /\ pc = "idle"
  /\ startTime = 0
  /\ now = 0
  /\ parsedQuery = JSUndefined
  /\ data = <<>>
  /\ metadata = [dataType |-> "general", sources |-> <<>>, totalResults |-> 0]
  /\ response = [status |-> 0]
  /\ calls = <<>>
  /\ probes = <<>>
  /\ pending = [pump |-> [state |-> "none"], bonk |-> [state |-> "none"]]
  /\ invocations = <<>>

InitParse ==
  /\ query \in ParseQueries
  /\ results = <<>>
  /\ raw = <<>>
  /\ cleaned = <<>>
  /\ NoRequest

ParseQuery(o) ==
  /\ Len(results) < MaxInvocations
  /\ results' = Append(results, [completion |-> o, returned |-> parseQuery(query, o)])
  /\ UNCHANGED <<query, raw, cleaned>>
  /\ UNCHANGED handlerVars

NextParse == \E o \in Completions : ParseQuery(o)

SpecParse == InitParse /\ [][NextParse]_vars

(***************************************************************************)
(* Data records.  Property values are tagged: Num(n), Str(s), JSNull or    *)
(* JSUndefined (a property that is present and holds undefined).           *)
(***************************************************************************)
Num(n) == [t |-> "num", n |-> n]
Str(str) == [t |-> "str", s |-> str]

hasOwnProperty(item, f) == f \in DOMAIN item
Get(item, f) == IF f \in DOMAIN item THEN item[f] ELSE JSUndefined

\* !v
Not(v) ==
  \/ v.t \in {"undefined", "null"}
  \/ (v.t = "num" /\ v.n = 0)
  \/ (v.t = "str" /\ Len(v.s) = 0)

\* v <= 0, v < 0 and v > k after ToNumber: null is 0, undefined is NaN and
\* every comparison with NaN is false
LeqZero(v) == (v.t = "num" /\ v.n <= 0) \/ v.t = "null"
LtZero(v) == v.t = "num" /\ v.n < 0
Gt(v, k) == (v.t = "num" /\ v.n > k) \/ (v.t = "null" /\ 0 > k)

(***************************************************************************)
(* OpenAIService.validateAndCleanData: the filter callback, check by check *)
(***************************************************************************)
invalidPrice(item) ==
  hasOwnProperty(item, "price") /\
    (item.price = Num(0) \/ item.price = JSNull \/ item.price = JSUndefined)

invalidMarketCap(item) ==
  hasOwnProperty(item, "marketCap") /\ LeqZero(item.marketCap)

invalidCurrentMcap(item) ==
  hasOwnProperty(item, "currentMcap") /\ LeqZero(item.currentMcap)

invalidTvl(item) == hasOwnProperty(item, "tvl") /\ LeqZero(item.tvl)

invalidApy(item) ==
  hasOwnProperty(item, "apy") /\ (LtZero(item.apy) \/ Gt(item.apy, 1000000))

emptyName(item) ==
  hasOwnProperty(item, "name") /\
    (Not(item.name) \/ Trim(item.name.s) = "")

trendingWithoutName(item) ==
  hasOwnProperty(item, "trendingRank") /\ Not(Get(item, "name"))

passesValidation(item) ==
  ~ \/ invalidPrice(item)
    \/ invalidMarketCap(item)
    \/ invalidCurrentMcap(item)
    \/ invalidTvl(item)
    \/ invalidApy(item)
    \/ emptyName(item)
    \/ trendingWithoutName(item)

\* a variant that returns the survivors last to first
validateAndCleanDataReversed(items) ==
  LET kept == SelectSeq(items, passesValidation) IN
  [i \in 1..Len(kept) |-> kept[Len(kept) + 1 - i]]

validateAndCleanData(items) ==
  IF Len(items) = 0 THEN <<>> ELSE SelectSeq(items, passesValidation)

(***************************************************************************)
(* Records handed to the validator: every variant, sound and defective.    *)
(***************************************************************************)
MaxRecords == 2

PriceRecord(p) == [symbol |-> Str("SOL"), name |-> Str("Solana"), price |-> p]
ProtocolRecord(n, tvl) == [name |-> n, tvl |-> Num(tvl), category |-> Str("Dexes")]
YieldRecord(apy, tvlUsd) ==
  [project |-> Str("Raydium"), symbol |-> Str("SOL-USDC"),
   apy |-> Num(apy), tvlUsd |-> Num(tvlUsd), chain |-> Str("Solana")]
TokenRecord(n, mcap) ==
  [name |-> n, symbol |-> Str("PEPE"), currentMcap |-> Num(mcap),
   platform |-> Str("pumpfun")]
MarketRecord(mcap) ==
  [name |-> Str("Bitcoin"), symbol |-> Str("BTC"), price |-> Num(67234),
   marketCap |-> mcap, rank |-> Num(1)]
TrendingRecord(n, p) ==
  [name |-> n, symbol |-> Str("BONK"), price |-> Num(p),
   marketCap |-> Num(1500), trendingRank |-> Num(1)]
NamelessTrendingRecord ==
  [symbol |-> Str("BONK"), price |-> Num(2), marketCap |-> Num(1500),
   trendingRank |-> Num(1)]
NewsRecord == [title |-> Str("Bitcoin Reaches New All-Time High"),
               url |-> Str("https://example.com/news/1")]
SentimentRecord == [coin |-> Str("Ethereum"), symbol |-> Str("ETH"),
                    sentimentScore |-> Num(0)]

RecordPool ==
  { PriceRecord(Num(178)), PriceRecord(Num(0)), PriceRecord(Num(-5)),
    PriceRecord(JSNull), PriceRecord(JSUndefined),
    ProtocolRecord(Str("Aave"), 8000), ProtocolRecord(Str("Aave"), -5),
    ProtocolRecord(Str(""), 8000), ProtocolRecord(Str("  "), 8000),
    YieldRecord(12, 50000), YieldRecord(2000000, 50000),
    YieldRecord(-1, 50000), YieldRecord(12, -5), YieldRecord(1000000, 0),
    TokenRecord(Str("PEPE"), 20000), TokenRecord(Str("PEPE"), 0),
    MarketRecord(Num(1300)), MarketRecord(Num(0)), MarketRecord(JSUndefined),
    TrendingRecord(Str("Bonk"), 2), TrendingRecord(Str("Bonk"), 0),
    TrendingRecord(JSNull, 2), NamelessTrendingRecord,
    NewsRecord, SentimentRecord }

RECURSIVE SeqsUpTo(_, _)
SeqsUpTo(S, n) ==
  IF n = 0 THEN { <<>> }
  ELSE LET shorter == SeqsUpTo(S, n - 1) IN
       shorter \cup { Append(sq, x) : sq \in shorter, x \in S }

(***************************************************************************)
(* Specification of validateAndCleanData on one record sequence.           *)
(***************************************************************************)
InitClean ==
  /\ raw \in SeqsUpTo(RecordPool, MaxRecords)
  /\ cleaned = <<>>
  /\ query = ""
  /\ results = <<>>
  /\ NoRequest

\* the validator is applied to the raw sequence, then to its own output
MaxCleanings == 2

Clean ==
  /\ Len(cleaned) < MaxCleanings
  /\ cleaned' = Append(cleaned,
                       validateAndCleanData(IF Len(cleaned) = 0 THEN raw
                                            ELSE cleaned[Len(cleaned)]))
  /\ UNCHANGED <<query, results, raw>>
  /\ UNCHANGED handlerVars

NextClean == Clean

SpecClean == InitClean /\ [][NextClean]_vars

(***************************************************************************)
(* Time.  Date.now() is in milliseconds, provider timestamps are in        *)
(* seconds.  The model's clock is the wall clock shifted back by           *)
(* EpochShift seconds (every comparison of the code is between two times,  *)
(* so a shift changes none); it reads StartMs when a request arrives and   *)
(* advances by whole ticks while the handler awaits.                       *)
(***************************************************************************)
StartMs == 10 * 24 * 60 * 60 * 1000
TickMs == 1000
MaxTicks == 1

(***************************************************************************)
(* Array.prototype.sort((a, b) => key(b) - key(a)): a stable sort by       *)
(* non-increasing key.  Each element is inserted after the elements whose  *)
(* key is not smaller than its own.                                        *)
(***************************************************************************)
\* a variant that puts an element before those of equal key
RECURSIVE InsertByKeyBeforeEquals(_, _)
InsertByKeyBeforeEquals(sorted, x) ==
  IF Len(sorted) = 0 THEN <<x>>
  ELSE IF x.key >= sorted[1].key THEN <<x>> \o sorted
  ELSE <<sorted[1]>> \o InsertByKeyBeforeEquals(Tail(sorted), x)

RECURSIVE InsertByKey(_, _)
InsertByKey(sorted, x) ==
  IF Len(sorted) = 0 THEN <<x>>
  ELSE IF x.key > sorted[1].key THEN <<x>> \o sorted
  ELSE <<sorted[1]>> \o InsertByKey(Tail(sorted), x)

RECURSIVE SortKeyed(_)
SortKeyed(sq) ==
  IF Len(sq) = 0 THEN <<>>
  ELSE InsertByKey(SortKeyed(SubSeq(sq, 1, Len(sq) - 1)), sq[Len(sq)])

SortDescending(sq, key(_)) ==
  LET keyed == [i \in 1..Len(sq) |-> [key |-> key(sq[i]), value |-> sq[i]]]
      sorted == SortKeyed(keyed)
  IN [i \in 1..Len(sq) |-> sorted[i].value]

Map(f(_), sq) == [i \in 1..Len(sq) |-> f(sq[i])]

(***************************************************************************)
(* An HTTP response as the services see it: the request fails (network    *)
(* error, timeout, error status) or yields a body.  Bodies:                *)
(*   [t |-> "array", items]   a JSON array                                 *)
(*   [t |-> "object", ...]    a JSON object with the properties shown      *)
(*   [t |-> "string"]         a non-empty text (an HTML error page)        *)
(*   JSNull                   no body                                      *)
(***************************************************************************)
Failed(why) == [kind |-> "error", error |-> why]
Body(b) == [kind |-> "data", data |-> b]
ArrayOf(items) == [t |-> "array", items |-> items]
HtmlPage == [t |-> "string"]

\* one call of a provider method or of a synthetic generator ("mock") by a
\* service: whether the service returned what it gave (won), how many
\* records it gave, and the records
Probe(chain, provider, won, records) ==
  [chain |-> chain, provider |-> provider, won |-> won,
   count |-> Len(records), records |-> records]

(***************************************************************************)
(* PumpFunService (services/pumpfun.ts).                                   *)
(***************************************************************************)
pumpFunEndpoints ==
  << "https://frontend-api.pump.fun/coins", "https://api.pump.fun/coins",
     "https://pump.fun/api/coins" >>
authHeaders == << "Bearer", "X-API-Key", "Bearer+X-GitHub-Token" >>

PumpAttempts == Len(pumpFunEndpoints) * Len(authHeaders)

\* the two accepted shapes: a non-empty array, or an object with a coins array
PumpUsable(resp) ==
  /\ resp.kind = "data"
  /\ \/ resp.data.t = "array" /\ Len(resp.data.items) > 0
     \/ resp.data.t = "object" /\ "coins" \in DOMAIN resp.data
          /\ resp.data.coins.t = "array"

PumpTokensOf(resp) ==
  IF resp.data.t = "array" THEN resp.data.items ELSE resp.data.coins.items

pumpFunTokenNames ==
  << "PEPE", "WOJAK", "DOGE2", "SHIB2", "BONK2", "WIF", "POPCAT", "BOOK",
     "PNUT", "GOAT", "MOODENG", "CHILLGUY", "FARTCOIN", "ZEREBRO", "AI16Z",
     "VIRTUAL", "GRIFFAIN", "SHOGGOTH", "MEMEME", "DEGENAI", "TRUMP47",
     "ELONMARS", "SOLCAT", "MOONDOG", "ROCKETPEPE" >>

\* draws[i] is what Math.random() gives token i: its market cap and its age
generateRealisticPumpFunTokens(count, nowMs, draws) ==
  LET currentTime == nowMs \div 1000
      token(i) ==
        [mint |-> "pump" \o ToString(i),
         name |-> pumpFunTokenNames[((i - 1) % Len(pumpFunTokenNames)) + 1],
         created_timestamp |-> currentTime - draws[i].secondsAgo,
         market_cap |-> draws[i].marketCap,
         usd_market_cap |-> draws[i].marketCap,
         total_supply |-> 1000000000]
  IN SortDescending([i \in 1..count |-> token(i)],
                    LAMBDA t : t.created_timestamp)

\* script[k] is the response the k-th axios.get would receive; the loops
\* stop at the first usable one.  attempts is the number of requests made.
getTokens(limit, script, nowMs, draws) ==
  LET usable == { k \in 1..PumpAttempts : PumpUsable(script[k]) } IN
  IF usable # {}
  THEN LET first == CHOOSE k \in usable : \A m \in usable : k <= m IN
       [tokens |-> PumpTokensOf(script[first]), attempts |-> first,
        source |-> "pump.fun",
        tried |-> << Probe("pumpfun", "pump.fun", TRUE,
                           PumpTokensOf(script[first])) >>]
  ELSE LET mock == generateRealisticPumpFunTokens(limit, nowMs, draws) IN
       [tokens |-> mock, attempts |-> PumpAttempts, source |-> "mock",
        tried |-> << Probe("pumpfun", "pump.fun", FALSE, <<>>),
                     Probe("pumpfun", "mock", TRUE, mock) >>]

\* volume24h, priceUSD, holders, creator and description are carried along
\* and read by nothing downstream
PumpConvertToTokenData(pumpToken) ==
  [id |-> Str(pumpToken.mint),
   name |-> Str(pumpToken.name),
   symbol |-> Str(pumpToken.name),
   platform |-> Str("pumpfun"),
   launchTime |-> Num(pumpToken.created_timestamp * 1000),
   currentMcap |-> Num(IF pumpToken.usd_market_cap # 0
                       THEN pumpToken.usd_market_cap
                       ELSE pumpToken.market_cap)]

\* a service call either returns an array or throws
Returned(v) == [threw |-> FALSE, value |-> v]
Threw(what) == [threw |-> TRUE, error |-> what]

\* token => ... on an element that is null throws a TypeError
getRecentTokens(hours, tokens, nowMs) ==
  LET cutoffTime == nowMs - (hours * 60 * 60 * 1000)
      recent(token) == token.created_timestamp * 1000 > cutoffTime
  IN
  IF \E k \in 1..Len(tokens) : tokens[k] = JSNull
  THEN Threw("TypeError")
  ELSE Returned(Map(PumpConvertToTokenData, SelectSeq(tokens, recent)))

AboveMcap(recentTokens, minMcap) ==
  IF recentTokens.threw THEN recentTokens
  ELSE Returned(SelectSeq(recentTokens.value,
                          LAMBDA token : Gt(token.currentMcap, minMcap)))

getTokensAboveMarketCap(minMcap, hours, tokens, nowMs) ==
  AboveMcap(getRecentTokens(hours, tokens, nowMs), minMcap)

(***************************************************************************)
(* BonkService (services/bonk.ts).  market_cap is a tagged number: the     *)
(* Jupiter approach computes it as parseFloat(mintSymbol) * price.         *)
(***************************************************************************)
bonkEcosystemNames ==
  << "BONK", "DOBONK", "BABYBONK", "BONKINU", "BONKARMY", "MEGABONK",
     "SUPERBONK", "BONKDOGE", "BONKPEPE", "BONKWIF", "BONKCOIN", "MINIBONK",
     "BONKSWAP", "BONKFI", "BONKDAO", "BONKNFT", "BONKVERSE", "BONKPAD",
     "BONKBOT", "BONKX" >>

\* returns response.data.tokens || response.data, or throws
fetchFromBonkAPI(resp) ==
  IF resp.kind = "error" THEN Threw("AxiosError")
  ELSE IF resp.data = JSNull THEN Threw("TypeError")
  ELSE IF resp.data.t = "object" /\ "tokens" \in DOMAIN resp.data
    THEN Returned(resp.data.tokens)
  ELSE Returned(resp.data)

\* a pair is kept when it has a baseToken and is on solana; reading the
\* name of a baseToken that has none throws
DexPairKept(pair) == "baseToken" \in DOMAIN pair /\ pair.chainId = "solana"

fetchBonkTokensFromDexScreener(limit, resp, nowMs, draws) ==
  IF resp.kind = "error" THEN Threw("AxiosError")
  ELSE IF resp.data = JSNull \/ resp.data.t # "object"
          \/ "pairs" \notin DOMAIN resp.data
    THEN Returned(ArrayOf(<<>>))
  ELSE
    LET pairs == SubSeq(resp.data.pairs, 1,
                        IF Len(resp.data.pairs) < limit
                          THEN Len(resp.data.pairs) ELSE limit)
        kept == SelectSeq(pairs, DexPairKept)
        token(k) ==
          [mint |-> kept[k].baseToken.address,
           name |-> kept[k].baseToken.name,
           created_timestamp |-> (nowMs \div 1000) - draws[k].secondsAgo,
           market_cap |-> IF "fdv" \in DOMAIN kept[k] /\ kept[k].fdv # 0
                            THEN Num(kept[k].fdv) ELSE Num(0)]
    IN IF \E k \in 1..Len(kept) : "name" \notin DOMAIN kept[k].baseToken
       THEN Threw("TypeError")
       ELSE Returned(ArrayOf([k \in 1..Len(kept) |-> token(k)]))

bonkMint == "DezXAZ8z7PnrnRJjz3wXBoRgixCa6xjnB7YaB1pPB263"
BonkLaunchTimestamp == 1672531200

\* the model's clock is the wall clock shifted back to the Bonk launch
EpochShift == BonkLaunchTimestamp

\* never throws: its own catch swallows the failure
fetchBonkTokensFromJupiter(resp) ==
  IF resp.kind = "data" /\ resp.data # JSNull /\ resp.data.t = "object"
       /\ "data" \in DOMAIN resp.data
  THEN Returned(ArrayOf(<<
         [mint |-> bonkMint, name |-> "Bonk",
          created_timestamp |-> BonkLaunchTimestamp - EpochShift,
          market_cap |-> NaN] >>))
  ELSE Returned(ArrayOf(<<>>))

generateRealisticBonkTokens(count, nowMs, draws) ==
  LET currentTime == nowMs \div 1000
      token(i) ==
        [mint |-> "bonk" \o ToString(i),
         name |-> bonkEcosystemNames[((i - 1) % Len(bonkEcosystemNames)) + 1],
         created_timestamp |-> currentTime - draws[i].secondsAgo,
         market_cap |-> Num(draws[i].marketCap)]
  IN SortDescending([i \in 1..count |-> token(i)],
                    LAMBDA t : t.created_timestamp)

\* tokens.length > 0 for what an approach returned: an array or a string
\* has a length, any other object has none
NonEmptyLength(v) ==
  \/ v.t = "array" /\ Len(v.items) > 0
  \/ v.t = "string"

\* the approaches in order; a throwing or empty one passes to the next.
\* tried lists the approaches that were called.
getBonkEcosystemTokens(limit, api, dex, jupiter, nowMs, draws) ==
  LET first == fetchFromBonkAPI(api)
      second == fetchBonkTokensFromDexScreener(limit, dex, nowMs, draws)
      third == fetchBonkTokensFromJupiter(jupiter)
      mock == generateRealisticBonkTokens(limit, nowMs, draws)
      won(r) == ~r.threw /\ NonEmptyLength(r.value)
      itemsOf(r) == IF ~r.threw /\ r.value.t = "array" THEN r.value.items ELSE <<>>
      probe(provider, r) == Probe("bonk", provider, won(r), itemsOf(r))
  IN
  IF won(first)
    THEN [tokens |-> first.value, source |-> "Bonk API",
          tried |-> << probe("Bonk API", first) >>]
  ELSE IF won(second)
    THEN [tokens |-> second.value, source |-> "DexScreener",
          tried |-> << probe("Bonk API", first), probe("DexScreener", second) >>]
  ELSE IF won(third)
    THEN [tokens |-> third.value, source |-> "Jupiter",
          tried |-> << probe("Bonk API", first), probe("DexScreener", second),
                       probe("Jupiter", third) >>]
  ELSE [tokens |-> ArrayOf(mock), source |-> "mock",
        tried |-> << probe("Bonk API", first), probe("DexScreener", second),
                     probe("Jupiter", third),
                     Probe("bonk", "mock", TRUE, mock) >>]

\* volume24h, priceUSD, holders, creator and description are carried along
\* and read by nothing downstream
BonkConvertToTokenData(bonkToken) ==
  [id |-> Str(bonkToken.mint),
   name |-> Str(bonkToken.name),
   symbol |-> Str(bonkToken.name),
   platform |-> Str("bonk"),
   launchTime |-> Num(bonkToken.created_timestamp * 1000),
   currentMcap |-> bonkToken.market_cap]

\* tokens.filter on a string, or token.created_timestamp on a null
\* element, throws a TypeError
getRecentBonkTokens(hours, tokens, nowMs) ==
  LET cutoffTime == (nowMs \div 1000) - (hours * 60 * 60)
      recent(token) == token.created_timestamp > cutoffTime
  IN
  IF tokens.t # "array" THEN Threw("TypeError")
  ELSE IF \E k \in 1..Len(tokens.items) : tokens.items[k] = JSNull
    THEN Threw("TypeError")
  ELSE Returned(Map(BonkConvertToTokenData, SelectSeq(tokens.items, recent)))

getBonkTokensAboveMarketCap(minMcap, hours, tokens, nowMs) ==
  AboveMcap(getRecentBonkTokens(hours, tokens, nowMs), minMcap)

(***************************************************************************)
(* PriceDataService (services/priceData.ts).  Amounts are whole numbers:    *)
(* a fraction is rounded, a positive amount below 1 is held as 1.  Symbols  *)
(* are upper case, as the classifier and the prompt's examples give them.   *)
(***************************************************************************)
symbolToId ==
  << <<"SOL", "solana">>, <<"BTC", "bitcoin">>, <<"ETH", "ethereum">>,
     <<"USDC", "usd-coin">>, <<"USDT", "tether">>, <<"BNB", "binancecoin">>,
     <<"XRP", "ripple">>, <<"ADA", "cardano">>, <<"DOGE", "dogecoin">>,
     <<"MATIC", "matic-network">> >>

fullNames ==
  << <<"SOL", "Solana">>, <<"BTC", "Bitcoin">>, <<"ETH", "Ethereum">>,
     <<"USDC", "USD Coin">>, <<"USDT", "Tether">>, <<"BNB", "Binance Coin">>,
     <<"XRP", "Ripple">>, <<"ADA", "Cardano">>, <<"DOGE", "Dogecoin">>,
     <<"MATIC", "Polygon">> >>

\* table[key] || otherwise
Lookup(table, key, otherwise) ==
  IF \E k \in 1..Len(table) : table[k][1] = key
  THEN table[CHOOSE k \in 1..Len(table) : table[k][1] = key][2]
  ELSE otherwise

\* names[symbol.toUpperCase()] || symbol
getFullName(symbol) == Lookup(fullNames, ToUpperCase(symbol), symbol)

\* symbols.some(s => s.toUpperCase() === symbol)
Requested(symbols, symbol) ==
  \E k \in 1..Len(symbols) : ToUpperCase(symbols[k]) = symbol

\* resp.data.quotes is the body: coin id -> {usd, usd_market_cap}.  No
\* request is made when no symbol is known; the whole method is inside one
\* try, so any failure returns []
fetchFromCoinGecko(symbols, resp) ==
  LET known == SelectSeq(symbols,
                 LAMBDA sym : Lookup(symbolToId, ToUpperCase(sym), "") # "")
      hit(entry) == /\ entry[2] \in DOMAIN resp.data.quotes
                    /\ Requested(symbols, entry[1])
      record(entry) ==
        [symbol |-> Str(entry[1]), name |-> Str(getFullName(entry[1])),
         price |-> Get(resp.data.quotes[entry[2]], "usd"),
         marketCap |-> Get(resp.data.quotes[entry[2]], "usd_market_cap")]
  IN
  IF Len(known) = 0 THEN <<>>
  ELSE IF resp.kind = "error" \/ resp.data = JSNull THEN <<>>
  ELSE Map(record, SelectSeq(symbolToId, hit))

\* parseFloat of a property that may be missing
ParseFloat(obj, f) == IF f \in DOMAIN obj THEN obj[f] ELSE NaN

\* resp.data.data is the asset list
fetchFromCoinCap(symbols, resp) ==
  LET record(asset) ==
        [symbol |-> Str(ToUpperCase(asset.symbol)), name |-> Str(asset.name),
         price |-> ParseFloat(asset, "priceUsd"),
         marketCap |-> ParseFloat(asset, "marketCapUsd")]
  IN
  IF resp.kind = "error" \/ resp.data = JSNull THEN <<>>
  ELSE IF "data" \notin DOMAIN resp.data THEN <<>>
  ELSE Map(record,
           SelectSeq(resp.data.data,
                     LAMBDA asset : Requested(symbols, ToUpperCase(asset.symbol))))

mockPrices ==
  << <<"SOL", 178>>, <<"BTC", 67234>>, <<"ETH", 3567>>, <<"USDC", 1>>,
     <<"USDT", 1>>, <<"BNB", 412>>, <<"XRP", 1>>, <<"ADA", 1>>,
     <<"DOGE", 1>>, <<"MATIC", 1>> >>

\* draw is Math.random() * 100 for a symbol the table does not list;
\* marketCap, in millions, is price * 1e9 or undefined
generateMockPrices(symbols, draw) ==
  Map(LAMBDA symbol :
        LET listed == Lookup(mockPrices, ToUpperCase(symbol), 0) IN
        [symbol |-> Str(ToUpperCase(symbol)), name |-> Str(getFullName(symbol)),
         price |-> Num(IF listed # 0 THEN listed ELSE draw),
         marketCap |-> IF listed # 0 THEN Num(listed * 1000) ELSE JSUndefined],
      symbols)

\* a variant that asks CoinCap whatever CoinGecko gave
getPricesAskingBoth(symbols, gecko, coincap, draw) ==
  LET first == fetchFromCoinGecko(symbols, gecko)
      second == fetchFromCoinCap(symbols, coincap)
      mock == generateMockPrices(symbols, draw)
      asked == << Probe("price", "CoinGecko", Len(first) # 0, first),
                  Probe("price", "CoinCap", Len(first) = 0 /\ Len(second) # 0,
                        second) >>
  IN
  IF Len(first) # 0 THEN [prices |-> first, source |-> "CoinGecko", tried |-> asked]
  ELSE IF Len(second) # 0
    THEN [prices |-> second, source |-> "CoinCap", tried |-> asked]
  ELSE [prices |-> mock, source |-> "mock",
        tried |-> Append(asked, Probe("price", "mock", TRUE, mock))]

\* CoinCap is asked only when CoinGecko gave nothing, the mock only when
\* both gave nothing
getPrices(symbols, gecko, coincap, draw) ==
  LET first == fetchFromCoinGecko(symbols, gecko) IN
  IF Len(first) # 0
    THEN [prices |-> first, source |-> "CoinGecko",
          tried |-> << Probe("price", "CoinGecko", TRUE, first) >>]
  ELSE
    LET second == fetchFromCoinCap(symbols, coincap) IN
    IF Len(second) # 0
      THEN [prices |-> second, source |-> "CoinCap",
            tried |-> << Probe("price", "CoinGecko", FALSE, first),
                         Probe("price", "CoinCap", TRUE, second) >>]
    ELSE LET mock == generateMockPrices(symbols, draw) IN
         [prices |-> mock, source |-> "mock",
          tried |-> << Probe("price", "CoinGecko", FALSE, first),
                       Probe("price", "CoinCap", FALSE, second),
                       Probe("price", "mock", TRUE, mock) >>]

(***************************************************************************)
(* DeFiLlamaService (services/defilamma.ts).  TVL of a protocol is in      *)
(* millions of dollars.                                                    *)
(***************************************************************************)
generateMockProtocols ==
  << [id |-> Str("1"), name |-> Str("Uniswap"), symbol |-> Str("UNI"),
      category |-> Str("Dexes"), chains |-> <<"Ethereum", "Arbitrum", "Polygon">>,
      tvl |-> Num(5000)],
     [id |-> Str("2"), name |-> Str("Aave"), symbol |-> Str("AAVE"),
      category |-> Str("Lending"), chains |-> <<"Ethereum", "Polygon", "Avalanche">>,
      tvl |-> Num(8000)] >>

\* the body is returned as it came when it is an array
getProtocols(resp) ==
  IF resp.kind = "data" /\ resp.data # JSNull /\ resp.data.t = "array"
  THEN resp.data.items
  ELSE generateMockProtocols

\* the calls getProtocols makes: the request, then the generator if needed
getProtocolsTried(resp) ==
  IF resp.kind = "data" /\ resp.data # JSNull /\ resp.data.t = "array"
  THEN << Probe("protocols", "DeFiLlama", TRUE, resp.data.items) >>
  ELSE << Probe("protocols", "DeFiLlama", FALSE, <<>>),
          Probe("protocols", "mock", TRUE, generateMockProtocols) >>

\* chain.charAt(0).toUpperCase() + chain.slice(1)
Capitalize(chain) ==
  IF Len(chain) = 0 THEN ""
  ELSE UpperChar(SubSeq(chain, 1, 1)) \o SubSeq(chain, 2, Len(chain))

Slice(sq, limit) == SubSeq(sq, 1, IF Len(sq) < limit THEN Len(sq) ELSE limit)

SeqIncludes(sq, x) == \E k \in 1..Len(sq) : sq[k] = x

\* chain is <<>> when the intent has none, <<name>> otherwise.  Reading
\* p.chains (in the filter) or b.tvl (in the comparator, which runs when
\* there are two elements or more) on a null element, or calling includes
\* on a protocol without chains, throws
getTopProtocolsByTVL(chain, limit, protocols) ==
  LET filterThrows ==
        Len(chain) > 0 /\ \E k \in 1..Len(protocols) :
                            "chains" \notin DOMAIN protocols[k]
      sortThrows ==
        Len(protocols) > 1 /\ \E k \in 1..Len(protocols) : protocols[k] = JSNull
  IN
  IF filterThrows \/ sortThrows THEN Threw("TypeError")
  ELSE
    LET filteredProtocols ==
          IF Len(chain) > 0
          THEN SelectSeq(protocols,
                 LAMBDA pr : SeqIncludes(pr.chains, Capitalize(chain[1])))
          ELSE protocols
    IN Returned(Slice(SortDescending(filteredProtocols,
                        LAMBDA pr : IF pr = JSNull THEN 0 ELSE pr.tvl.n),
                      limit))

generateMockYieldFarms ==
  << [chain |-> Str("Ethereum"), project |-> Str("Uniswap V3"),
      symbol |-> Str("USDC-ETH"), tvlUsd |-> Num(50000000), apy |-> Num(12)],
     [chain |-> Str("Solana"), project |-> Str("Raydium"),
      symbol |-> Str("SOL-USDC"), tvlUsd |-> Num(25000000), apy |-> Num(19)] >>

\* inside the try: a body that is not {data: [...]}, or a pool without
\* chain under the chain filter, ends in the catch, which returns the mock
getYieldFarms(chain, resp) ==
  IF resp.kind = "data" /\ resp.data # JSNull /\ resp.data.t = "object"
       /\ "data" \in DOMAIN resp.data /\ resp.data.data.t = "array"
  THEN LET pools == resp.data.data.items IN
       IF Len(chain) = 0 THEN pools
       ELSE IF \E k \in 1..Len(pools) : "chain" \notin DOMAIN pools[k]
         THEN generateMockYieldFarms
       ELSE SelectSeq(pools,
              LAMBDA pool : ToLowerCase(pool.chain.s) = ToLowerCase(chain[1]))
  ELSE generateMockYieldFarms

\* the calls getYieldFarms makes
getYieldFarmsTried(chain, resp) ==
  LET pools == getYieldFarms(chain, resp)
      real == /\ resp.kind = "data" /\ resp.data # JSNull /\ resp.data.t = "object"
              /\ "data" \in DOMAIN resp.data /\ resp.data.data.t = "array"
              /\ (Len(chain) = 0 \/ \A k \in 1..Len(resp.data.data.items) :
                                      "chain" \in DOMAIN resp.data.data.items[k])
  IN IF real THEN << Probe("yields", "DeFiLlama", TRUE, pools) >>
     ELSE << Probe("yields", "DeFiLlama", FALSE, <<>>),
             Probe("yields", "mock", TRUE, pools) >>

\* a variant that cuts the filtered pools without sorting them
getTopYieldFarmsUnsorted(chain, limit, resp) ==
  Slice(SelectSeq(getYieldFarms(chain, resp),
                  LAMBDA pool : Gt(pool.apy, 0) /\ Gt(pool.tvlUsd, 10000)),
        limit)

getTopYieldFarms(chain, limit, resp) ==
  LET pools == getYieldFarms(chain, resp)
      sound == SelectSeq(pools,
                 LAMBDA pool : Gt(pool.apy, 0) /\ Gt(pool.tvlUsd, 10000))
  IN Slice(SortDescending(sound, LAMBDA pool : pool.apy.n), limit)

(***************************************************************************)
(* MarketDataService (services/marketData.ts).  Market caps are in         *)
(* millions of dollars.  x || d on a field that may be missing.            *)
(***************************************************************************)
OrElse(obj, field, d) == IF Not(Get(obj, field)) THEN d ELSE obj[field]

formatCMCData(coin) ==
  [id |-> coin.id, name |-> Get(coin, "name"), symbol |-> Get(coin, "symbol"),
   rank |-> Get(coin, "cmc_rank"), price |-> Get(coin.quote, "price"),
   marketCap |-> Get(coin.quote, "market_cap")]

formatGeckoData(coin) ==
  [id |-> Get(coin, "id"), name |-> Get(coin, "name"),
   symbol |-> Str(ToUpperCase(coin.symbol.s)), rank |-> OrElse(coin, "market_cap_rank", Num(0)),
   price |-> Get(coin, "current_price"), marketCap |-> Get(coin, "market_cap")]

generateMockMarketData(limit) ==
  LET mockCoins ==
        << [name |-> "Bitcoin", symbol |-> "BTC", price |-> 67234, rank |-> 1,
            marketCap |-> 1300000],
           [name |-> "Ethereum", symbol |-> "ETH", price |-> 3567, rank |-> 2,
            marketCap |-> 430000],
           [name |-> "Solana", symbol |-> "SOL", price |-> 178, rank |-> 5,
            marketCap |-> 80000],
           [name |-> "Bonk", symbol |-> "BONK", price |-> 1, rank |-> 65,
            marketCap |-> 1500] >>
  IN Map(LAMBDA coin :
           [id |-> Str(ToLowerCase(coin.symbol)), name |-> Str(coin.name),
            symbol |-> Str(coin.symbol), rank |-> Num(coin.rank),
            price |-> Num(coin.price), marketCap |-> Num(coin.marketCap)],
         Slice(mockCoins, limit))

\* each try returns from inside when its body has the expected shape; a
\* coin without quote (CMC) or without symbol (CoinGecko) throws into the
\* catch, and the next source is tried
getTopCryptos(limit, cmc, gecko) ==
  LET cmcShape == cmc.kind = "data" /\ cmc.data # JSNull /\ cmc.data.t = "object"
                    /\ "data" \in DOMAIN cmc.data
      cmcThrows == \/ cmc.data.data.t # "array"
                   \/ \E k \in 1..Len(cmc.data.data.items) :
                        "quote" \notin DOMAIN cmc.data.data.items[k]
      geckoShape == gecko.kind = "data" /\ gecko.data # JSNull
                      /\ gecko.data.t = "array"
      geckoThrows == \E k \in 1..Len(gecko.data.items) :
                       "symbol" \notin DOMAIN gecko.data.items[k]
  IN
  IF cmcShape /\ ~cmcThrows
    THEN LET first == Map(formatCMCData, cmc.data.data.items) IN
         [data |-> first, source |-> "CoinMarketCap",
          tried |-> << Probe("market", "CoinMarketCap", TRUE, first) >>]
  ELSE IF geckoShape /\ ~geckoThrows
    THEN LET second == Map(formatGeckoData, gecko.data.items) IN
         [data |-> second, source |-> "CoinGecko",
          tried |-> << Probe("market", "CoinMarketCap", FALSE, <<>>),
                       Probe("market", "CoinGecko", TRUE, second) >>]
  ELSE LET mock == generateMockMarketData(limit) IN
       [data |-> mock, source |-> "mock",
        tried |-> << Probe("market", "CoinMarketCap", FALSE, <<>>),
                     Probe("market", "CoinGecko", FALSE, <<>>),
                     Probe("market", "mock", TRUE, mock) >>]

\* resp.data.coins is the trending list, prices the second response
getTrendingFromCoinGecko(resp, prices) ==
  IF resp.kind = "error" THEN Threw("AxiosError")
  ELSE IF resp.data = JSNull \/ resp.data.t # "object"
          \/ "coins" \notin DOMAIN resp.data
    THEN Returned(<<>>)
  ELSE
    LET trendingCoins == Slice(resp.data.coins, 10)
        priced == prices.kind = "data" /\ prices.data # JSNull
        quoteOf(id) == IF id \in DOMAIN prices.data.quotes
                         THEN prices.data.quotes[id] ELSE [none |-> TRUE]
        withPrices(k) ==
          LET item == trendingCoins[k].item
              priceData == quoteOf(item.id.s)
          IN [id |-> item.id, name |-> Get(item, "name"),
              symbol |-> Get(item, "symbol"),
              price |-> OrElse(priceData, "usd", Num(0)),
              marketCap |-> OrElse(priceData, "usd_market_cap", Num(0)),
              trendingRank |-> Num(k), trendingScore |-> Num(100 - ((k - 1) * 10))]
        namesOnly(k) ==
          LET item == trendingCoins[k].item
          IN [id |-> item.id, name |-> Get(item, "name"),
              symbol |-> Get(item, "symbol"), price |-> Num(0),
              marketCap |-> OrElse(item, "market_cap_rank", Num(0)),
              trendingRank |-> Num(k), trendingScore |-> Num(100 - ((k - 1) * 10))]
    IN IF \E k \in 1..Len(trendingCoins) : "item" \notin DOMAIN trendingCoins[k]
         THEN Threw("TypeError")
       ELSE IF priced
         THEN Returned([k \in 1..Len(trendingCoins) |-> withPrices(k)])
       ELSE Returned([k \in 1..Len(trendingCoins) |-> namesOnly(k)])

getTrendingFromDexScreener(resp) ==
  IF resp.kind = "error" THEN Threw("AxiosError")
  ELSE IF resp.data = JSNull \/ resp.data.t # "object"
          \/ "pairs" \notin DOMAIN resp.data
    THEN Returned(<<>>)
  ELSE
    LET pairs == Slice(resp.data.pairs, 10)
        entry(k) ==
          [id |-> Str(pairs[k].baseToken.address),
           name |-> IF "name" \in DOMAIN pairs[k].baseToken
                      THEN Str(pairs[k].baseToken.name) ELSE JSUndefined,
           symbol |-> JSUndefined,
           price |-> OrElse(pairs[k], "priceUsd", Num(0)),
           marketCap |-> IF "fdv" \in DOMAIN pairs[k] /\ pairs[k].fdv # 0
                           THEN Num(pairs[k].fdv) ELSE Num(0),
           trendingRank |-> Num(k), trendingScore |-> Num(90 - ((k - 1) * 8))]
    IN IF \E k \in 1..Len(pairs) : "baseToken" \notin DOMAIN pairs[k]
         THEN Threw("TypeError")
       ELSE Returned([k \in 1..Len(pairs) |-> entry(k)])

\* never throws: its own catch swallows the failure
getTrendingFromSocial(resp) ==
  IF resp.kind = "data" /\ resp.data # JSNull /\ resp.data.t = "object"
       /\ "data" \in DOMAIN resp.data /\ resp.data.data.t = "array"
       /\ \A k \in 1..Len(resp.data.data.items) : resp.data.data.items[k] # JSNull
  THEN LET assets == resp.data.data.items IN
       Returned([k \in 1..Len(assets) |->
         [id |-> Get(assets[k], "id"), name |-> Get(assets[k], "name"),
          symbol |-> Get(assets[k], "symbol"),
          price |-> OrElse(assets[k], "price", Num(0)),
          marketCap |-> OrElse(assets[k], "market_cap", Num(0)),
          trendingRank |-> Num(k),
          trendingScore |-> OrElse(assets[k], "social_score", Num(0))]])
  ELSE Returned(<<>>)

generateMockTrending ==
  << [id |-> Str("bonk"), name |-> Str("Bonk"), symbol |-> Str("BONK"),
      price |-> Num(1), marketCap |-> Num(1500), trendingRank |-> Num(1),
      trendingScore |-> Num(95)] >>

\* the sources in order; a throwing or empty one passes to the next
getTrendingCryptos(gecko, prices, dex, social) ==
  LET first == getTrendingFromCoinGecko(gecko, prices)
      second == getTrendingFromDexScreener(dex)
      third == getTrendingFromSocial(social)
      won(r) == ~r.threw /\ Len(r.value) > 0
      probe(provider, r) ==
        Probe("trending", provider, won(r), IF r.threw THEN <<>> ELSE r.value)
  IN
  IF won(first)
    THEN [data |-> first.value, source |-> "CoinGecko",
          tried |-> << probe("CoinGecko", first) >>]
  ELSE IF won(second)
    THEN [data |-> second.value, source |-> "DexScreener",
          tried |-> << probe("CoinGecko", first), probe("DexScreener", second) >>]
  ELSE IF won(third)
    THEN [data |-> third.value, source |-> "Social",
          tried |-> << probe("CoinGecko", first), probe("DexScreener", second),
                       probe("Social", third) >>]
  ELSE [data |-> generateMockTrending, source |-> "mock",
        tried |-> << probe("CoinGecko", first), probe("DexScreener", second),
                     probe("Social", third),
                     Probe("trending", "mock", TRUE, generateMockTrending) >>]

generateMockNews ==
  << [id |-> Str("mock-news-1"),
      title |-> Str("Bitcoin Reaches New All-Time High Amid Institutional Adoption"),
      url |-> Str("https://example.com/news/1"), source |-> Str("Crypto News"),
      sentiment |-> Str("positive"), category |-> Str("market")] >>

\* an article without source throws into the catch; the mock follows
getCryptoNews(limit, resp) ==
  IF resp.kind = "data" /\ resp.data # JSNull /\ resp.data.t = "object"
       /\ "articles" \in DOMAIN resp.data
       /\ \A k \in 1..Len(resp.data.articles) :
            "source" \in DOMAIN resp.data.articles[k]
  THEN LET articles ==
             Map(LAMBDA article :
                   [id |-> Get(article, "url"), title |-> Get(article, "title"),
                    url |-> Get(article, "url"),
                    source |-> Str(article.source), category |-> Str("general")],
                 resp.data.articles)
       IN [data |-> articles, source |-> "NewsAPI",
           tried |-> << Probe("news", "NewsAPI", TRUE, articles) >>]
  ELSE [data |-> generateMockNews, source |-> "mock",
        tried |-> << Probe("news", "NewsAPI", FALSE, <<>>),
                     Probe("news", "mock", TRUE, generateMockNews) >>]

\* symbol |-> coin.toUpperCase(); bullish and bearish are Math.random() draws
generateMockSentiment(coins, draw) ==
  Map(LAMBDA coin :
        [coin |-> Str(coin), symbol |-> Str(coin),
         bullishPercent |-> Num(30 + draw), bearishPercent |-> Num(20 + draw),
         sentimentScore |-> Num(0)],
      coins)

\* n / 100 as a whole number that keeps the sign of n
Hundredth(n) ==
  IF n > 0 THEN (n + 99) \div 100
  ELSE IF n < 0 THEN 0 - ((99 - n) \div 100) ELSE 0

\* resps[k] answers the request for coins[k]; one failure discards all
getSocialSentiment(coins, resps, draw) ==
  IF \E k \in 1..Len(coins) : resps[k].kind = "error"
    THEN generateMockSentiment(coins, draw)
  ELSE
    LET found(k) == /\ resps[k].data # JSNull /\ resps[k].data.t = "object"
                    /\ "data" \in DOMAIN resps[k].data
                    /\ Len(resps[k].data.data) > 0
        entry(k) ==
          LET d == resps[k].data.data[1] IN
          [coin |-> Get(d, "name"), symbol |-> Get(d, "symbol"),
           bullishPercent |-> IF "sentiment" \in DOMAIN d
                                THEN OrElse(d.sentiment, "bullish", Num(33))
                                ELSE Num(33),
           bearishPercent |-> IF "sentiment" \in DOMAIN d
                                THEN OrElse(d.sentiment, "bearish", Num(33))
                                ELSE Num(33),
           sentimentScore |->
             IF "sentiment" \in DOMAIN d /\ "bullish" \in DOMAIN d.sentiment
                  /\ "bearish" \in DOMAIN d.sentiment
               THEN Num(Hundredth(d.sentiment.bullish.n - d.sentiment.bearish.n))
               ELSE Num(0)]
        hits == SelectSeq([k \in 1..Len(coins) |-> k], found)
    IN Map(entry, hits)

\* the calls getSocialSentiment makes
getSocialSentimentTried(coins, resps, draw) ==
  LET sentiments == getSocialSentiment(coins, resps, draw) IN
  IF \E k \in 1..Len(coins) : resps[k].kind = "error"
    THEN << Probe("sentiment", "LunarCrush", FALSE, <<>>),
            Probe("sentiment", "mock", TRUE, sentiments) >>
    ELSE << Probe("sentiment", "LunarCrush", TRUE, sentiments) >>

(***************************************************************************)
(* OpenAIService.formatResponse (services/openai.ts).  The prompt text is  *)
(* read by the language model only; what the method returns is the         *)
(* model's content or one of the static templates.                         *)
(***************************************************************************)
RECURSIVE Join(_, _)
Join(parts, sep) ==
  IF Len(parts) = 0 THEN ""
  ELSE IF Len(parts) = 1 THEN parts[1]
  ELSE parts[1] \o sep \o Join(Tail(parts), sep)

Pad3(n) == IF n < 10 THEN "00" \o ToString(n)
           ELSE IF n < 100 THEN "0" \o ToString(n) ELSE ToString(n)

\* Number.prototype.toLocaleString() of a whole number: groups of three
RECURSIVE Grouped(_)
Grouped(n) ==
  IF n < 1000 THEN ToString(n)
  ELSE Grouped(n \div 1000) \o "," \o Pad3(n % 1000)

toLocaleString(n) == IF n < 0 THEN "-" \o Grouped(0 - n) ELSE Grouped(n)

\* `${v}` of a property value
Interpolate(v) ==
  CASE v.t = "str" -> v.s
    [] v.t = "num" -> ToString(v.n)
    [] v.t = "null" -> "null"
    [] v.t = "nan" -> "NaN"
    [] v.t = "object" -> "[object Object]"
    [] OTHER -> "undefined"

\* v?.toLocaleString() || 'N/A'
LocaleOrNA(v) ==
  CASE v.t = "num" -> toLocaleString(v.n)
    [] v.t = "str" -> IF Len(v.s) = 0 THEN "N/A" ELSE v.s
    [] v.t = "nan" -> "NaN"
    [] OTHER -> "N/A"

\* (tvl / 1e9).toFixed(1), tvl being held in millions
BillionsFixed1(v) ==
  IF v.t # "num" /\ v.t # "null" THEN "NaN"
  ELSE LET m == IF v.t = "null" THEN 0 ELSE v.n
           a == IF m < 0 THEN 0 - m ELSE m
           tenths == (a + 50) \div 100
       IN (IF m < 0 /\ tenths > 0 THEN "-" ELSE "")
            \o ToString(tenths \div 10) \o "." \o ToString(tenths % 10)

isTokenData(processedData) ==
  Len(processedData) > 0 /\ hasOwnProperty(processedData[1], "currentMcap")
isPriceData(processedData) ==
  Len(processedData) > 0 /\ hasOwnProperty(processedData[1], "price")
    /\ hasOwnProperty(processedData[1], "symbol")
isDeFiProtocolData(processedData) ==
  Len(processedData) > 0 /\ hasOwnProperty(processedData[1], "tvl")
    /\ hasOwnProperty(processedData[1], "name")
isYieldFarmData(processedData) ==
  Len(processedData) > 0 /\ hasOwnProperty(processedData[1], "apy")
    /\ hasOwnProperty(processedData[1], "project")
isNewsData(processedData) ==
  Len(processedData) > 0 /\ hasOwnProperty(processedData[1], "title")
    /\ hasOwnProperty(processedData[1], "url")
isTrendingData(processedData) ==
  Len(processedData) > 0 /\ hasOwnProperty(processedData[1], "trendingRank")
isSentimentData(processedData) ==
  Len(processedData) > 0 /\ hasOwnProperty(processedData[1], "sentimentScore")
isMarketData(processedData) ==
  Len(processedData) > 0 /\ hasOwnProperty(processedData[1], "marketCap")
    /\ hasOwnProperty(processedData[1], "rank")

\* the if / else-if chain that picks the summary of the data prompt, in the
\* order of the code; the value is the prompt's "Data Type"
dataTypeOf(processedData) ==
  IF isPriceData(processedData) THEN "prices"
  ELSE IF isDeFiProtocolData(processedData) THEN "DeFi protocols"
  ELSE IF isYieldFarmData(processedData) THEN "yield farming pools"
  ELSE IF isNewsData(processedData) THEN "news articles"
  ELSE IF isTrendingData(processedData) THEN "trending cryptocurrencies"
  ELSE IF isSentimentData(processedData) THEN "social sentiment data"
  ELSE IF isMarketData(processedData) THEN "market data"
  ELSE IF isTokenData(processedData) THEN "tokens"
  ELSE "general"

\* the catch branch of formatResponse: the lists are built from items, the
\* flags were computed on processedData
StaticAnswer(items, processedData, processingTime) ==
  IF isPriceData(processedData) THEN
    "Current prices: "
      \o Join(Map(LAMBDA pr : Interpolate(Get(pr, "symbol")) \o ": $"
                                \o LocaleOrNA(Get(pr, "price")),
                  Slice(items, 5)), ", ")
      \o ". Data processed in " \o ToString(processingTime)
      \o "ms from live market feeds."
  ELSE IF isDeFiProtocolData(processedData) THEN
    "Top DeFi protocols: "
      \o Join(Map(LAMBDA pr : Interpolate(Get(pr, "name")) \o " ($"
                                \o BillionsFixed1(Get(pr, "tvl")) \o "B TVL)",
                  Slice(items, 3)), ", ")
      \o ". Found " \o ToString(Len(items)) \o " protocols in "
      \o ToString(processingTime) \o "ms."
  ELSE IF isTokenData(processedData) THEN
    "Found " \o ToString(Len(items))
      \o " tokens matching your criteria. Top tokens include: "
      \o Join(Map(LAMBDA tk : Interpolate(Get(tk, "name")) \o " ($"
                                \o LocaleOrNA(Get(tk, "currentMcap")) \o " mcap)",
                  Slice(items, 3)), ", ")
      \o ". Processing completed in " \o ToString(processingTime) \o "ms."
  ELSE
    "Found " \o ToString(Len(items))
      \o " results matching your query. Processing completed in "
      \o ToString(processingTime) \o "ms from multiple data sources."

\* the completion resolved and response.choices[0] could be read
Resolved(o) == o.kind = "resolve" /\ o.choices

\* content || d
ContentOr(o, d) == IF Falsy(o.content) THEN d ELSE o.content.s

generateIntelligentFallbackResponse(q, processingTime, o) ==
  LET lowerQuery == ToLowerCase(q) IN
  IF Resolved(o) THEN
    ContentOr(o, "") \o "\n\nProcessing Time: " \o ToString(processingTime)
      \o "ms\nNote: Data validation filtered out invalid results for better user experience."
  ELSE IF Includes(lowerQuery, "trending") \/ Includes(lowerQuery, "hot") THEN
    "I'm currently experiencing data sync issues with trending cryptocurrency information. Trending cryptos usually include major coins like Bitcoin, Ethereum, and Solana, plus emerging tokens gaining social media attention. For accurate trending data, try asking about specific cryptocurrency prices or check major exchanges directly. Processing time: "
      \o ToString(processingTime) \o "ms."
  ELSE IF Includes(lowerQuery, "price") \/ Includes(lowerQuery, "trading") THEN
    "I encountered some issues accessing current price data. Cryptocurrency prices change rapidly throughout the day. For the most reliable pricing, I recommend trying your query again or checking established exchanges like Coinbase, Binance, or CoinGecko directly. Processing time: "
      \o ToString(processingTime) \o "ms."
  ELSE
    "I encountered some data quality issues while processing your request about \""
      \o q
      \o "\". Rather than show potentially inaccurate information, I filtered it out. Please try rephrasing your question or ask about a specific cryptocurrency for better results. Processing time: "
      \o ToString(processingTime) \o "ms."

\* the filter callback throws: item.hasOwnProperty on an element that is
\* null, or item.name.trim on a name that is truthy and not a string, which
\* is reached when none of the checks before it has dropped the item
validationThrows(item) ==
  \/ item = JSNull
  \/ /\ hasOwnProperty(item, "name") /\ ~Not(item.name) /\ item.name.t # "str"
     /\ ~ \/ invalidPrice(item) \/ invalidMarketCap(item)
          \/ invalidCurrentMcap(item) \/ invalidTvl(item) \/ invalidApy(item)

\* a variant that sends the data prompt whatever the validator kept
formatPromptsDataAlways(items) ==
  IF \E k \in 1..Len(items) : validationThrows(items[k]) THEN <<>>
  ELSE <<"format">>

\* the prompts formatResponse sends to the language model, in order: the
\* fallback prompt (lines 198-201, 400) or the data prompt (line 296)
formatPrompts(items) ==
  IF \E k \in 1..Len(items) : validationThrows(items[k]) THEN <<>>
  ELSE IF Len(validateAndCleanData(items)) = 0 /\ Len(items) > 0
    THEN <<"intelligent fallback">>
  ELSE <<"format">>

\* the summary branch taken for the data prompt; "" when no data prompt is
\* built
formatDataType(items) ==
  IF formatPrompts(items) # <<"format">> THEN ""
  ELSE LET cleanedData == validateAndCleanData(items)
       IN dataTypeOf(IF Len(cleanedData) > 0 THEN cleanedData ELSE items)

\* the validator runs before the try, so what it throws leaves the method
formatResponse(q, items, processingTime, o) ==
  IF \E k \in 1..Len(items) : validationThrows(items[k]) THEN Threw("TypeError")
  ELSE
    LET cleanedData == validateAndCleanData(items)
        processedData == IF Len(cleanedData) > 0 THEN cleanedData ELSE items
    IN
    IF Len(cleanedData) = 0 /\ Len(items) > 0
      THEN Returned(generateIntelligentFallbackResponse(q, processingTime, o))
    ELSE IF Resolved(o)
      THEN Returned(ContentOr(o, "Unable to format response"))
    ELSE Returned(StaticAnswer(items, processedData, processingTime))

(***************************************************************************)
(* Specification of formatResponse on one record sequence: every variant,  *)
(* records the validator drops, records with missing or wrongly typed      *)
(* fields, and null.                                                       *)
(***************************************************************************)
FormatPool ==
  { PriceRecord(Num(178)), PriceRecord(Num(0)),
    ProtocolRecord(Str("Aave"), 8000), ProtocolRecord(Str(""), 8000),
    ProtocolRecord(Num(5), 8000),
    TokenRecord(Str("PEPE"), 20000), TokenRecord(Str("PEPE"), 0),
    [symbol |-> Str("SOL")],
    YieldRecord(12, 50000), MarketRecord(Num(1300)),
    TrendingRecord(Str("Bonk"), 2), SentimentRecord,
    NewsRecord, JSNull }

FormatQueries ==
  { "What's the SOL price?", "What's trending in crypto today?",
    "How many tokens launched today?" }

ProcessingTimes == { 0, 1500 }

\* what the language model can answer a format prompt with
FormatCompletions ==
  { Reject("network"), NoChoices, Content(JSNull), Content(Text("")),
    Content(Text("Here is what I found.")) }

InitFormat ==
  /\ query \in FormatQueries
  /\ raw \in SeqsUpTo(FormatPool, MaxRecords)
  /\ cleaned = <<>>
  /\ results = <<>>
  /\ NoRequest

FormatResponse(o, processingTime) ==
  /\ Len(results) = 0
  /\ results' = << [completion |-> o, prompts |-> formatPrompts(raw),
                    dataType |-> formatDataType(raw),
                    returned |-> formatResponse(query, raw, processingTime, o)] >>
  /\ UNCHANGED <<query, raw, cleaned>>
  /\ UNCHANGED handlerVars

NextFormat ==
  \E o \in FormatCompletions, processingTime \in ProcessingTimes :
    FormatResponse(o, processingTime)

SpecFormat == InitFormat /\ [][NextFormat]_vars

(***************************************************************************)
(* What the outside world can answer.  The routes ask the token services   *)
(* for 100 tokens; the model asks for FetchLimit.                          *)
(***************************************************************************)
FetchLimit == 2

PumpToken(name, age, usd, cap) ==
  [mint |-> name, name |-> name,
   created_timestamp |-> (StartMs \div 1000) - age,
   market_cap |-> cap, usd_market_cap |-> usd, total_supply |-> 1000000000]

FreshRich == PumpToken("PEPE", 1800, 25000, 25000)
FreshPoor == PumpToken("WOJAK", 1800, 15000, 15000)
StaleRich == PumpToken("WIF", 7200, 60000, 60000)
NoUsdCap == PumpToken("GOAT", 1800, 0, 30000)

\* what Math.random() can give a synthetic pump.fun token: a market cap in
\* [1000, 10000000) and an age below 24 hours
PumpDrawPool ==
  << [secondsAgo |-> 1800, marketCap |-> 60000],
     [secondsAgo |-> 7200, marketCap |-> 60000],
     [secondsAgo |-> 1800, marketCap |-> 5000],
     [secondsAgo |-> 82800, marketCap |-> 5000] >>

\* a synthetic Bonk token: a market cap in [100, 1000000), an age below 72 h
BonkDrawPool ==
  << [secondsAgo |-> 1800, marketCap |-> 20000],
     [secondsAgo |-> 7200, marketCap |-> 500],
     [secondsAgo |-> 100000, marketCap |-> 20000],
     [secondsAgo |-> 1800, marketCap |-> 500] >>

DrawsFrom(pool, shift) ==
  [i \in 1..FetchLimit |-> pool[((i + shift) % Len(pool)) + 1]]

\* the k-th request is answered with body b, the earlier ones time out
AnsweredAt(k, b) ==
  [i \in 1..PumpAttempts |-> IF i < k THEN Failed("timeout") ELSE Body(b)]

Always(resp) == [i \in 1..PumpAttempts |-> resp]

PumpWorlds ==
  { [script |-> AnsweredAt(1, ArrayOf(<<FreshRich, FreshPoor>>)),
     draws |-> DrawsFrom(PumpDrawPool, 0)],
    [script |-> AnsweredAt(PumpAttempts,
                  [t |-> "object", coins |-> ArrayOf(<<StaleRich, NoUsdCap>>)]),
     draws |-> DrawsFrom(PumpDrawPool, 0)],
    [script |-> AnsweredAt(2, ArrayOf(<<FreshRich, JSNull>>)),
     draws |-> DrawsFrom(PumpDrawPool, 0)],
    [script |-> Always(Body(ArrayOf(<<>>))), draws |-> DrawsFrom(PumpDrawPool, 0)],
    [script |-> AnsweredAt(1, [t |-> "object", coins |-> ArrayOf(<<>>)]),
     draws |-> DrawsFrom(PumpDrawPool, 0)],
    [script |-> Always(Body(HtmlPage)), draws |-> DrawsFrom(PumpDrawPool, 1)],
    [script |-> Always(Body(JSNull)), draws |-> DrawsFrom(PumpDrawPool, 2)] }
  \cup { [script |-> Always(Failed("network")), draws |-> DrawsFrom(PumpDrawPool, k)]
           : k \in 0..(Len(PumpDrawPool) - 1) }

BonkToken(name, age, cap) ==
  [mint |-> name, name |-> name,
   created_timestamp |-> (StartMs \div 1000) - age, market_cap |-> cap]

FreshBonk == BonkToken("DOBONK", 1800, Num(25000))
SmallBonk == BonkToken("BABYBONK", 1800, Num(500))
StaleBonk == BonkToken("BONKINU", 7200, Num(40000))

BonkPairs ==
  << [baseToken |-> [address |-> "bonkwif", name |-> "BONKWIF"],
      chainId |-> "solana", fdv |-> 30000],
     [chainId |-> "solana", fdv |-> 100],
     [baseToken |-> [address |-> "bonketh", name |-> "BONKETH"],
      chainId |-> "ethereum", fdv |-> 70000] >>

NamelessPairs ==
  << [baseToken |-> [address |-> "anon"], chainId |-> "solana", fdv |-> 30000] >>

JupiterQuote == Body([t |-> "object", data |-> TRUE])

BonkWorlds ==
  { [api |-> Body(ArrayOf(<<FreshBonk, SmallBonk>>)), dex |-> Failed("unused"),
     jupiter |-> Failed("unused"), draws |-> DrawsFrom(BonkDrawPool, 0)],
    [api |-> Body([t |-> "object", tokens |-> ArrayOf(<<StaleBonk, FreshBonk>>)]),
     dex |-> Failed("unused"), jupiter |-> Failed("unused"),
     draws |-> DrawsFrom(BonkDrawPool, 0)],
    [api |-> Body(HtmlPage), dex |-> Failed("unused"),
     jupiter |-> Failed("unused"), draws |-> DrawsFrom(BonkDrawPool, 0)],
    [api |-> Body(ArrayOf(<<JSNull, FreshBonk>>)), dex |-> Failed("unused"),
     jupiter |-> Failed("unused"), draws |-> DrawsFrom(BonkDrawPool, 0)],
    [api |-> Failed("timeout"), dex |-> Body([t |-> "object", pairs |-> BonkPairs]),
     jupiter |-> Failed("unused"), draws |-> DrawsFrom(BonkDrawPool, 0)],
    [api |-> Body(JSNull), dex |-> Body([t |-> "object", pairs |-> NamelessPairs]),
     jupiter |-> JupiterQuote, draws |-> DrawsFrom(BonkDrawPool, 0)],
    [api |-> Body([t |-> "object"]), dex |-> Body(JSNull),
     jupiter |-> Body(JSNull), draws |-> DrawsFrom(BonkDrawPool, 1)] }
  \cup { [api |-> Failed("network"), dex |-> Failed("network"),
          jupiter |-> Failed("network"), draws |-> DrawsFrom(BonkDrawPool, k)]
           : k \in 0..(Len(BonkDrawPool) - 1) }

GeckoQuotes(q) == Body([t |-> "object", quotes |-> q])

PriceWorlds ==
  { [gecko |-> GeckoQuotes([solana |-> [usd |-> Num(178),
                                        usd_market_cap |-> Num(80000)],
                            bitcoin |-> [usd |-> Num(67000)]]),
     coincap |-> Failed("unused"), draw |-> 42],
    [gecko |-> GeckoQuotes([solana |-> [usd |-> Num(0)],
                            bitcoin |-> [usd |-> Num(0)]]),
     coincap |-> Failed("unused"), draw |-> 42],
    [gecko |-> GeckoQuotes([solana |-> EmptyObject]),
     coincap |-> Failed("unused"), draw |-> 42],
    [gecko |-> Failed("rate limit"),
     coincap |-> Body([t |-> "object",
                       data |-> << [symbol |-> "SOL", name |-> "Solana",
                                    priceUsd |-> Num(177)],
                                   [symbol |-> "BTC", name |-> "Bitcoin",
                                    priceUsd |-> Num(-5)],
                                   [symbol |-> "ETH", name |-> "Ethereum",
                                    priceUsd |-> Num(3500)] >>]),
     draw |-> 42],
    [gecko |-> GeckoQuotes(EmptyObject), coincap |-> Body([t |-> "object"]),
     draw |-> 42],
    [gecko |-> Failed("network"), coincap |-> Failed("network"), draw |-> 7] }

Protocol(name, tvl, chains) ==
  [name |-> Str(name), tvl |-> Num(tvl), category |-> Str("Liquid Staking"),
   chains |-> chains]

ProtocolResponses ==
  { Body(ArrayOf(<< Protocol("Lido", 30000, <<"Ethereum">>),
                    Protocol("Jito", 3000, <<"Solana">>),
                    Protocol("EigenLayer", 30000, <<"Ethereum">>) >>)),
    Body(ArrayOf(<< Protocol("Ghost", 0, <<"Ethereum">>) >>)),
    Body(ArrayOf(<< [name |-> Str("Bare"), tvl |-> Num(10)] >>)),
    Body(ArrayOf(<< JSNull >>)),
    Body(ArrayOf(<<>>)),
    Body(HtmlPage), Body(JSNull), Failed("timeout") }

YieldPool(chain, apy, tvlUsd) ==
  [chain |-> Str(chain), project |-> Str("Kamino"), symbol |-> Str("SOL-USDC"),
   apy |-> Num(apy), tvlUsd |-> Num(tvlUsd)]

YieldResponses ==
  { Body([t |-> "object",
          data |-> ArrayOf(<< YieldPool("Solana", 19, 25000000),
                              YieldPool("Ethereum", 2000000, 50000),
                              YieldPool("solana", 40, 20000),
                              YieldPool("Solana", 5, 9000) >>)]),
    Body([t |-> "object",
          data |-> ArrayOf(<< [project |-> Str("Anon"), symbol |-> Str("X"),
                               apy |-> Num(12), tvlUsd |-> Num(50000)] >>)]),
    Body([t |-> "object", data |-> HtmlPage]),
    Body(ArrayOf(<<>>)), Failed("timeout") }

CmcCoin(name, symbol, rank, quote) ==
  [id |-> Num(rank), name |-> Str(name), symbol |-> Str(symbol),
   cmc_rank |-> Num(rank), quote |-> quote]

GeckoCoin(name, symbol, price, cap) ==
  [id |-> Str(name), name |-> Str(name), symbol |-> Str(symbol),
   current_price |-> price, market_cap |-> cap]

TopCryptoWorlds ==
  { [cmc |-> Body([t |-> "object",
                   data |-> ArrayOf(<<
                     CmcCoin("Bitcoin", "BTC", 1,
                             [price |-> Num(67000), market_cap |-> Num(1300000)]),
                     CmcCoin("Dust", "DUST", 2,
                             [price |-> Num(1), market_cap |-> Num(0)]) >>)]),
     gecko |-> Failed("unused")],
    [cmc |-> Body([t |-> "object",
                   data |-> ArrayOf(<< [id |-> Num(1), name |-> Str("Bitcoin")] >>)]),
     gecko |-> Body(ArrayOf(<< GeckoCoin("ethereum", "eth", Num(3500), Num(430000)),
                               GeckoCoin("void", "void", JSNull, JSNull) >>))],
    [cmc |-> Body([t |-> "object", data |-> HtmlPage]),
     gecko |-> Body(ArrayOf(<< [id |-> Str("anon"), name |-> Str("Anon")] >>))],
    [cmc |-> Body([t |-> "object"]), gecko |-> Body(ArrayOf(<<>>))],
    [cmc |-> Failed("unauthorized"), gecko |-> Failed("rate limit")] }

TrendingItem(id, name) ==
  [item |-> [id |-> Str(id), name |-> Str(name), symbol |-> Str(ToUpperCase(id)),
             market_cap_rank |-> Num(40)]]

TrendingWorlds ==
  { [gecko |-> Body([t |-> "object",
                     coins |-> << TrendingItem("pepe", "Pepe"),
                                  TrendingItem("wif", "dogwifhat") >>]),
     prices |-> Body([t |-> "object",
                      quotes |-> [pepe |-> [usd |-> Num(1),
                                            usd_market_cap |-> Num(3000)]]]),
     dex |-> Failed("unused"), social |-> Failed("unused")],
    [gecko |-> Body([t |-> "object", coins |-> << TrendingItem("pepe", "Pepe") >>]),
     prices |-> Failed("rate limit"),
     dex |-> Failed("unused"), social |-> Failed("unused")],
    [gecko |-> Body([t |-> "object", coins |-> << [id |-> Str("bare")] >>]),
     prices |-> Failed("unused"),
     dex |-> Body([t |-> "object",
                   pairs |-> << [baseToken |-> [address |-> "popcat",
                                                 name |-> "Popcat"],
                                 priceUsd |-> Num(2), fdv |-> 900],
                                [baseToken |-> [address |-> "anon"]] >>]),
     social |-> Failed("unused")],
    [gecko |-> Body([t |-> "object"]), prices |-> Failed("unused"),
     dex |-> Body([t |-> "object", pairs |-> << [chainId |-> "solana"] >>]),
     social |-> Body([t |-> "object",
                      data |-> ArrayOf(<< [id |-> Num(7), name |-> Str("Bonk"),
                                           symbol |-> Str("BONK"),
                                           price |-> Num(1),
                                           market_cap |-> Num(1500),
                                           social_score |-> Num(88)] >>)])],
    [gecko |-> Failed("network"), prices |-> Failed("network"),
     dex |-> Failed("network"), social |-> Failed("network")] }

NewsResponses ==
  { Body([t |-> "object",
          articles |-> << [title |-> Str("ETF inflows hit a record"),
                           url |-> Str("https://example.org/etf"),
                           source |-> "Reuters"] >>]),
    Body([t |-> "object",
          articles |-> << [title |-> Str("Untitled"),
                           url |-> Str("https://example.org/x")] >>]),
    Body([t |-> "object", articles |-> <<>>]),
    Body(JSNull), Failed("unauthorized") }

SentimentResponses ==
  { Body([t |-> "object",
          data |-> << [name |-> Str("Bitcoin"), symbol |-> Str("BTC"),
                       sentiment |-> [bullish |-> Num(60), bearish |-> Num(20)]] >>]),
    Body([t |-> "object", data |-> << [name |-> Str("Bitcoin")] >>]),
    Body([t |-> "object", data |-> <<>>]),
    Failed("unauthorized") }

(***************************************************************************)
(* The requests.                                                           *)
(***************************************************************************)
Routes == { "/query", "/simple-query" }

HandlerQueries ==
  { MarketCapQuery,
    "What's the SOL price?",
    "What's trending in crypto today?",
    "Market sentiment for Ethereum",
    "Top DeFi protocols by TVL in the last hour",
    "How many tokens launched today?",
    "pumpfun vs bonk token counts" }

\* req.body.query: absent, null, "", 0, a number, an object, or a string
Requests ==
  { JSUndefined, JSNull, Str(""), Num(0), Num(5), [t |-> "object"] }
    \cup { Str(q) : q \in HandlerQueries }

\* JSON values the language model can answer the parse prompt with
HandlerValues ==
  ParsedValues \cup
  { [platform |-> "pumpfun", metric |-> "mcap", threshold |-> 19000, timeframe |-> 1],
    [platform |-> "pumpfun", metric |-> "mcap", threshold |-> 0, timeframe |-> 24],
    [platform |-> "bonk", metric |-> "mcap", threshold |-> 19000, timeframe |-> 1],
    [platform |-> "bonk", metric |-> "count", timeframe |-> 24],
    [platform |-> "both", metric |-> "mcap", threshold |-> 19000, timeframe |-> 1],
    [platform |-> "both", metric |-> "count", threshold |-> 19000, timeframe |-> 24],
    [platform |-> "price", metric |-> "price", timeframe |-> 1,
     cryptoSymbols |-> <<"BTC", "XYZ">>, includeNews |-> TRUE],
    [platform |-> "price", metric |-> "price", timeframe |-> 1,
     cryptoSymbols |-> <<>>],
    [platform |-> "defi", metric |-> "tvl", timeframe |-> 24, chain |-> "ethereum"],
    [platform |-> "defi", metric |-> "tvl", timeframe |-> 24],
    [platform |-> "defi", metric |-> "apy", timeframe |-> 24, chain |-> "solana"],
    [platform |-> "defi", metric |-> "apy", timeframe |-> 24],
    [platform |-> "defi", metric |-> "count", timeframe |-> 24],
    [platform |-> "defi", metric |-> "count", timeframe |-> 24,
     cryptoSymbols |-> <<"BTC">>, includeNews |-> TRUE, includeSentiment |-> TRUE],
    [platform |-> "general", metric |-> "sentiment", timeframe |-> 24,
     cryptoSymbols |-> <<"BTC">>],
    [platform |-> "general", metric |-> "mcap", timeframe |-> 24],
    [platform |-> "news", metric |-> "news", timeframe |-> 24, includeNews |-> TRUE],
    [platform |-> "trending", metric |-> "sentiment", timeframe |-> 24,
     includeSentiment |-> TRUE, cryptoSymbols |-> <<"BTC">>],
    [platform |-> "trending", metric |-> "sentiment", timeframe |-> 24] }

HandlerCompletions ==
  FailedCompletions \cup { Content(JSONText(v)) : v \in HandlerValues }

(***************************************************************************)
(* POST /query (routes/query.ts).  One action per stretch of the handler   *)
(* between two awaits.                                                     *)
(***************************************************************************)
\* queries that name an amount as the mock endpoint looks for it
SimpleQueries ==
  { "tokens over 19000 market cap", "tokens over 100000 mcap",
    "tokens over 100k" }

Init ==
  /\ route \in Routes
  /\ request \in Requests \cup (IF route = "/simple-query"
                                   THEN { Str(q) : q \in SimpleQueries }
                                   ELSE {})
  /\ pc = "idle"
  /\ startTime = 0
  /\ now = StartMs
  /\ parsedQuery = JSUndefined
  /\ data = <<>>
  /\ metadata = [dataType |-> "general", sources |-> <<>>, totalResults |-> 0]
  /\ response = [status |-> 0]
  /\ calls = <<>>
  /\ probes = <<>>
  /\ pending = [pump |-> [state |-> "none"], bonk |-> [state |-> "none"]]
  /\ invocations = <<>>
  /\ query = ""
  /\ results = <<>>
  /\ raw = <<>>
  /\ cleaned = <<>>

parserVars == <<results, raw, cleaned, invocations>>

\* !query || typeof query !== 'string'
RejectedNoTypeCheck(q) == Not(q)

Rejected(q) == Not(q) \/ q.t # "str"

BadRequest == [status |-> 400, error |-> "Query is required and must be a string"]

\* a catch block that logs the error and sends nothing
InternalErrorUnsent(what, t) == [status |-> 0]

\* the catch block of the handler, entered at time t
InternalError(what, t) ==
  [status |-> 500, error |-> "Failed to process query", message |-> what,
   processingTime |-> t - startTime]

\* lines 13-33: validation, then the six services are constructed
Receive ==
  /\ pc = "idle" /\ route = "/query"
  /\ startTime' = now
  /\ IF Rejected(request)
       THEN /\ response' = BadRequest
            /\ pc' = "done"
            /\ UNCHANGED <<query, calls>>
       ELSE /\ calls' = Append(calls, "new services")
            /\ query' = Interpolate(request)
            /\ pc' = "parse"
            /\ UNCHANGED response
  /\ UNCHANGED <<route, request, now, parsedQuery, data, metadata, probes,
                  pending>>
  /\ UNCHANGED parserVars

\* line 37: await openAIService.parseQuery(query)
Parse(o, ticks) ==
  /\ pc = "parse"
  /\ calls' = Append(calls, "openai")
  /\ parsedQuery' = parseQuery(query, o)
  /\ now' = now + (ticks * TickMs)
  /\ pc' = "switch"
  /\ UNCHANGED <<query, route, request, startTime, data, metadata, response,
                  probes, pending>>
  /\ UNCHANGED parserVars

\* a property of the intent, undefined when absent
Has(intent, f) == f \in DOMAIN intent
platformOf(intent) == IF Has(intent, "platform") THEN intent.platform ELSE ""
metricOf(intent) == IF Has(intent, "metric") THEN intent.metric ELSE ""

\* hours: number = 24
hoursOf(intent) == IF Has(intent, "timeframe") THEN intent.timeframe ELSE 24

\* parsedQuery.metric === 'mcap' && parsedQuery.threshold
UseThreshold(intent) ==
  metricOf(intent) = "mcap" /\ Has(intent, "threshold") /\ intent.threshold # 0

\* parsedQuery.chain as an optional argument
chainOfIntent(intent) ==
  IF Has(intent, "chain") /\ intent.chain # "" THEN <<intent.chain>> ELSE <<>>

Meta(dataType, sources) ==
  [dataType |-> dataType, sources |-> sources, totalResults |-> 0]

\* the statements after a case's await: the call either threw, which the
\* catch turns into a 500, or its value is assigned to data
Settle(call, dataType, sources, t) ==
  IF call.threw
    THEN /\ response' = InternalError(call.error, t)
         /\ pc' = "done"
         /\ UNCHANGED <<data, metadata>>
    ELSE /\ data' = call.value
         /\ metadata' = Meta(dataType, sources)
         /\ pc' = "supplement"
         /\ UNCHANGED response

Frame == /\ UNCHANGED <<query, route, request, startTime, parsedQuery, pending>>
         /\ UNCHANGED parserVars

\* line 48: parsedQuery.platform on null
SwitchThrows ==
  /\ pc = "switch" /\ parsedQuery = JSNull
  /\ response' = InternalError("TypeError", now)
  /\ pc' = "done"
  /\ UNCHANGED <<now, data, metadata, calls, probes>>
  /\ Frame

InCase(platform) ==
  pc = "switch" /\ parsedQuery # JSNull /\ platformOf(parsedQuery) = platform

CasePrice(w) ==
  /\ InCase("price")
  /\ IF Has(parsedQuery, "cryptoSymbols") /\ Len(parsedQuery.cryptoSymbols) > 0
       THEN /\ data' = getPrices(parsedQuery.cryptoSymbols, w.gecko, w.coincap,
                                 w.draw).prices
            /\ metadata' = Meta("prices", <<"CoinGecko", "CoinCap">>)
            /\ calls' = Append(calls, "prices")
            /\ probes' = probes \o getPrices(parsedQuery.cryptoSymbols, w.gecko,
                                              w.coincap, w.draw).tried
       ELSE UNCHANGED <<data, metadata, calls, probes>>
  /\ pc' = "supplement"
  /\ UNCHANGED <<now, response>>
  /\ Frame

pumpFunTokens(intent, w, t) ==
  LET tokens == getTokens(FetchLimit, w.script, t, w.draws).tokens IN
  IF UseThreshold(intent)
    THEN getTokensAboveMarketCap(intent.threshold, hoursOf(intent), tokens, t)
    ELSE getRecentTokens(hoursOf(intent), tokens, t)

bonkTokens(intent, w, t) ==
  LET tokens == getBonkEcosystemTokens(FetchLimit, w.api, w.dex, w.jupiter, t,
                                       w.draws).tokens
  IN
  IF UseThreshold(intent)
    THEN getBonkTokensAboveMarketCap(intent.threshold, hoursOf(intent), tokens, t)
    ELSE getRecentBonkTokens(hoursOf(intent), tokens, t)

CasePumpFun(w, ticks) ==
  /\ InCase("pumpfun")
  /\ now' = now + (ticks * TickMs)
  /\ calls' = Append(calls, "pump.fun")
  /\ probes' = probes \o getTokens(FetchLimit, w.script, now', w.draws).tried
  /\ Settle(pumpFunTokens(parsedQuery, w, now'), "tokens", <<"pump.fun">>, now')
  /\ Frame

CaseBonk(w, ticks) ==
  /\ InCase("bonk")
  /\ now' = now + (ticks * TickMs)
  /\ calls' = Append(calls, "bonk")
  /\ probes' = probes \o getBonkEcosystemTokens(FetchLimit, w.api, w.dex,
                                                 w.jupiter, now', w.draws).tried
  /\ Settle(bonkTokens(parsedQuery, w, now'), "tokens",
            <<"Bonk Ecosystem", "DexScreener", "Jupiter">>, now')
  /\ Frame

\* lines 82-90.  The array literal calls both services, so both requests
\* are under way before the handler awaits Promise.all; each promise then
\* settles on its own.  Promise.all rejects as soon as one of them rejects
\* and fulfils when both have fulfilled, and the handler resumes at once.
Started == [state |-> "started"]
Settled(result) == [state |-> "settled", result |-> result]

BothStart ==
  /\ InCase("both")
  /\ calls' = calls \o <<"pump.fun", "bonk">>
  /\ pending' = [pump |-> Started, bonk |-> Started]
  /\ pc' = "both"
  /\ UNCHANGED <<now, data, metadata, response, probes>>
  /\ UNCHANGED <<query, route, request, startTime, parsedQuery>>
  /\ UNCHANGED parserVars

\* a variant after Promise.allSettled: a rejected call counts as no tokens
MergedAllSettled(pumpTokens, bonkTokensFound) ==
  LET valueOf(r) == IF r.threw THEN <<>> ELSE r.value IN
  Returned(SortDescending(valueOf(pumpTokens) \o valueOf(bonkTokensFound),
                          LAMBDA tk : tk.currentMcap.n))

\* what await Promise.all(...) and the sort give once both have settled;
\* every record the pools can deliver holds currentMcap as a number
Merged(pumpTokens, bonkTokensFound) ==
  IF pumpTokens.threw THEN pumpTokens
  ELSE IF bonkTokensFound.threw THEN bonkTokensFound
  ELSE Returned(SortDescending(pumpTokens.value \o bonkTokensFound.value,
                               LAMBDA tk : tk.currentMcap.n))

\* the handler after one promise has settled with result, leaving the two
\* promises as in p
AfterSettling(result, p, t) ==
  IF p.pump.state = "settled" /\ p.bonk.state = "settled"
    THEN Settle(Merged(p.pump.result, p.bonk.result), "tokens",
                <<"pump.fun", "Bonk Ecosystem">>, t)
  ELSE IF result.threw
    THEN /\ response' = InternalError(result.error, t)
         /\ pc' = "done"
         /\ UNCHANGED <<data, metadata>>
  ELSE UNCHANGED <<pc, data, metadata, response>>

PumpSettles(w, ticks) ==
  /\ pc = "both" /\ pending.pump = Started
  /\ now' = now + (ticks * TickMs)
  /\ probes' = probes \o getTokens(FetchLimit, w.script, now', w.draws).tried
  /\ LET result == pumpFunTokens(parsedQuery, w, now') IN
     /\ pending' = [pending EXCEPT !.pump = Settled(result)]
     /\ AfterSettling(result, pending', now')
  /\ UNCHANGED calls
  /\ UNCHANGED <<query, route, request, startTime, parsedQuery>>
  /\ UNCHANGED parserVars

BonkSettles(w, ticks) ==
  /\ pc = "both" /\ pending.bonk = Started
  /\ now' = now + (ticks * TickMs)
  /\ probes' = probes \o getBonkEcosystemTokens(FetchLimit, w.api, w.dex,
                                                 w.jupiter, now', w.draws).tried
  /\ LET result == bonkTokens(parsedQuery, w, now') IN
     /\ pending' = [pending EXCEPT !.bonk = Settled(result)]
     /\ AfterSettling(result, pending', now')
  /\ UNCHANGED calls
  /\ UNCHANGED <<query, route, request, startTime, parsedQuery>>
  /\ UNCHANGED parserVars

CaseDefi(protocols, yields) ==
  /\ InCase("defi")
  /\ calls' = Append(calls, "defillama")
  /\ probes' = probes \o (IF metricOf(parsedQuery) = "apy"
                            THEN getYieldFarmsTried(chainOfIntent(parsedQuery), yields)
                            ELSE getProtocolsTried(protocols))
  /\ LET chain == chainOfIntent(parsedQuery) IN
     IF metricOf(parsedQuery) = "tvl"
       THEN Settle(getTopProtocolsByTVL(chain, 20, getProtocols(protocols)),
                   "protocols", <<"DeFiLlama">>, now)
     ELSE IF metricOf(parsedQuery) = "apy"
       THEN Settle(Returned(getTopYieldFarms(chain, 20, yields)),
                   "yields", <<"DeFiLlama">>, now)
     ELSE Settle(Returned(getProtocols(protocols)), "protocols",
                 <<"DeFiLlama">>, now)
  /\ UNCHANGED now
  /\ Frame

SameForAll(coins, resp) == [k \in 1..Len(coins) |-> resp]

CaseGeneral(w, sentiment) ==
  /\ InCase("general")
  /\ calls' = Append(calls, "market")
  /\ probes' = probes \o
       (IF metricOf(parsedQuery) = "sentiment" /\ Has(parsedQuery, "cryptoSymbols")
          THEN getSocialSentimentTried(parsedQuery.cryptoSymbols,
                 SameForAll(parsedQuery.cryptoSymbols, sentiment), 10)
          ELSE getTopCryptos(50, w.cmc, w.gecko).tried)
  /\ IF metricOf(parsedQuery) = "sentiment" /\ Has(parsedQuery, "cryptoSymbols")
       THEN Settle(Returned(getSocialSentiment(parsedQuery.cryptoSymbols,
                              SameForAll(parsedQuery.cryptoSymbols, sentiment), 10)),
                   "sentiment", <<"LunarCrush", "Social APIs">>, now)
       ELSE Settle(Returned(getTopCryptos(50, w.cmc, w.gecko).data),
                   "prices", <<"CoinMarketCap", "CoinGecko">>, now)
  /\ UNCHANGED now
  /\ Frame

CaseNews(resp) ==
  /\ InCase("news")
  /\ calls' = Append(calls, "news")
  /\ probes' = probes \o getCryptoNews(20, resp).tried
  /\ Settle(Returned(getCryptoNews(20, resp).data), "news",
            <<"NewsAPI", "Crypto News Feeds">>, now)
  /\ UNCHANGED now
  /\ Frame

CaseTrending(w) ==
  /\ InCase("trending")
  /\ calls' = Append(calls, "trending")
  /\ probes' = probes \o getTrendingCryptos(w.gecko, w.prices, w.dex, w.social).tried
  /\ Settle(Returned(getTrendingCryptos(w.gecko, w.prices, w.dex, w.social).data),
            "trending", <<"CoinGecko", "DexScreener", "Social Media">>, now)
  /\ UNCHANGED now
  /\ Frame

KnownPlatforms ==
  { "price", "pumpfun", "bonk", "both", "defi", "general", "news", "trending" }

CaseDefault(w, ticks) ==
  /\ pc = "switch" /\ parsedQuery # JSNull
  /\ platformOf(parsedQuery) \notin KnownPlatforms
  /\ now' = now + (ticks * TickMs)
  /\ calls' = Append(calls, "pump.fun")
  /\ probes' = probes \o getTokens(FetchLimit, w.script, now', w.draws).tried
  /\ Settle(getRecentTokens(hoursOf(parsedQuery),
                            getTokens(FetchLimit, w.script, now', w.draws).tokens,
                            now'),
            "tokens", <<"pump.fun">>, now')
  /\ Frame

\* lines 147-162: the two supplementary blocks, then totalResults
\* a variant that takes an absent flag for a set one
TruthyUnlessFalse(intent, f) == Has(intent, f) => intent[f] = TRUE

Truthy(intent, f) == Has(intent, f) /\ intent[f] = TRUE

\* a variant that puts the new records in front
SpreadInFront(list, more) == more \o list

\* lines 150 and 157: [...data, ...newsData]; data is an array after every
\* case of the switch
Spread(list, more) == list \o more

\* a variant that counts the records the validator would keep
totalResultsCleaned(list) == Len(validateAndCleanData(list))

\* line 162: Array.isArray(data) ? data.length : 0, data being an array
totalResults(list) == Len(list)

Supplement(news, sentiment) ==
  /\ pc = "supplement"
  /\ LET wantsNews == Truthy(parsedQuery, "includeNews")
                        /\ platformOf(parsedQuery) # "news"
         wantsSentiment == Truthy(parsedQuery, "includeSentiment")
                             /\ Has(parsedQuery, "cryptoSymbols")
         newsData == IF wantsNews THEN getCryptoNews(5, news).data ELSE <<>>
         sentimentData ==
           IF wantsSentiment
             THEN getSocialSentiment(parsedQuery.cryptoSymbols,
                    SameForAll(parsedQuery.cryptoSymbols, sentiment), 10)
             ELSE <<>>
         sources == metadata.sources
                      \o (IF wantsNews THEN <<"News APIs">> ELSE <<>>)
                      \o (IF wantsSentiment THEN <<"Social Sentiment">> ELSE <<>>)
         all == Spread(Spread(data, newsData), sentimentData)
     IN /\ data' = all
        /\ metadata' = [dataType |-> metadata.dataType, sources |-> sources,
                        totalResults |-> totalResults(all)]
        /\ calls' = calls \o (IF wantsNews THEN <<"news">> ELSE <<>>)
                          \o (IF wantsSentiment THEN <<"sentiment">> ELSE <<>>)
        /\ probes' = probes
             \o (IF wantsNews THEN getCryptoNews(5, news).tried ELSE <<>>)
             \o (IF wantsSentiment
                   THEN getSocialSentimentTried(parsedQuery.cryptoSymbols,
                          SameForAll(parsedQuery.cryptoSymbols, sentiment), 10)
                   ELSE <<>>)
  /\ pc' = "format"
  /\ UNCHANGED <<now, response>>
  /\ Frame

\* lines 161-178: processingTime is taken before the format await
Respond(o, ticks) ==
  /\ pc = "format"
  /\ now' = now + (ticks * TickMs)
  /\ LET processingTime == now - startTime
         answer == formatResponse(query, data, processingTime, o)
     IN /\ calls' = IF answer.threw THEN calls ELSE Append(calls, "openai")
        /\ response' =
             IF answer.threw THEN InternalError(answer.error, now')
             ELSE [status |-> 200, query |-> query, answer |-> answer.value,
                   data |-> data, metadata |-> metadata,
                   processingTime |-> processingTime]
  /\ pc' = "done"
  /\ UNCHANGED <<data, metadata, probes>>
  /\ Frame

(***************************************************************************)
(* POST /simple-query (routes/simple.ts): no await, one action.            *)
(* draws[i] is Math.random() for token i, in thousandths.                  *)
(***************************************************************************)
SimpleDrawPool == << 0, 999, 500 >>

SimpleDraws(shift) ==
  [i \in 1..23 |-> SimpleDrawPool[((i + shift) % Len(SimpleDrawPool)) + 1]]

simpleCount(lowerQuery) ==
  IF Includes(lowerQuery, "100") THEN 23
  ELSE IF Includes(lowerQuery, "19") THEN 15 ELSE 8

simpleMarketCap(lowerQuery, draw) ==
  IF Includes(lowerQuery, "19000") THEN 19000 + (draw * 50)
  ELSE IF Includes(lowerQuery, "100000") THEN 100000 + (draw * 200)
  ELSE (draw * 500) + 10000

simpleAnswer(lowerQuery, count) ==
  IF Includes(lowerQuery, "19000") THEN
    "Based on current data, " \o ToString(count)
      \o " tokens on pump.fun have reached over $19,000 market cap in the last hour."
  ELSE IF Includes(lowerQuery, "100000") \/ Includes(lowerQuery, "100k") THEN
    "I found " \o ToString(count)
      \o " tokens that reached over $100,000 market cap in the last hour on pump.fun."
  ELSE
    "Found " \o ToString(count)
      \o " tokens matching your query on pump.fun. These tokens were launched recently and show various market cap levels."

SimpleQuery(draws) ==
  /\ pc = "idle" /\ route = "/simple-query"
  /\ startTime' = now
  /\ IF Rejected(request)
       THEN /\ response' = BadRequest
            /\ UNCHANGED query
       ELSE IF request.t # "str"
         \* query.toLowerCase is not a function: thrown into the catch
         THEN /\ response' = [status |-> 500, error |-> "Failed to process query",
                              message |-> "TypeError"]
              /\ UNCHANGED query
       ELSE LET lowerQuery == ToLowerCase(request.s)
                count == simpleCount(lowerQuery)
                mockTokens ==
                  [i \in 1..count |->
                     [id |-> Str("mock-token-" \o ToString(i)),
                      name |-> Str("TestToken " \o ToString(i)),
                      symbol |-> Str("TEST" \o ToString(i)),
                      platform |-> Str("pumpfun"),
                      launchTime |-> Num(now - (draws[i] * 3600)),
                      currentMcap |-> Num(simpleMarketCap(lowerQuery, draws[i]))]]
            IN /\ response' = [status |-> 200, query |-> request.s,
                               answer |-> simpleAnswer(lowerQuery, count),
                               data |-> mockTokens, processingTime |-> 0]
               /\ query' = request.s
  /\ pc' = "done"
  /\ UNCHANGED <<route, request, now, parsedQuery, data, metadata, calls,
                  probes, pending>>
  /\ UNCHANGED parserVars

(***************************************************************************)
(* The server: one request, taken from its arrival to its response.        *)
(***************************************************************************)
Ticks == 0..MaxTicks

Next ==
  \/ Receive
  \/ \E o \in HandlerCompletions, ticks \in Ticks : Parse(o, ticks)
  \/ SwitchThrows
  \/ \E w \in PriceWorlds : CasePrice(w)
  \/ \E w \in PumpWorlds, ticks \in Ticks : CasePumpFun(w, ticks)
  \/ \E w \in BonkWorlds, ticks \in Ticks : CaseBonk(w, ticks)
  \/ BothStart
  \/ \E w \in PumpWorlds, ticks \in Ticks : PumpSettles(w, ticks)
  \/ \E w \in BonkWorlds, ticks \in Ticks : BonkSettles(w, ticks)
  \/ \E protocols \in ProtocolResponses, yields \in YieldResponses :
       CaseDefi(protocols, yields)
  \/ \E w \in TopCryptoWorlds, sentiment \in SentimentResponses :
       CaseGeneral(w, sentiment)
  \/ \E resp \in NewsResponses : CaseNews(resp)
  \/ \E w \in TrendingWorlds : CaseTrending(w)
  \/ \E w \in PumpWorlds, ticks \in Ticks : CaseDefault(w, ticks)
  \/ \E news \in NewsResponses, sentiment \in SentimentResponses :
       Supplement(news, sentiment)
  \/ \E o \in FormatCompletions, ticks \in Ticks : Respond(o, ticks)
  \/ \E shift \in 0..(Len(SimpleDrawPool) - 1) : SimpleQuery(SimpleDraws(shift))

Spec == Init /\ [][Next]_vars

(***************************************************************************)
(* Properties of parseQuery.                                               *)
(***************************************************************************)
Platforms ==
  {"pumpfun", "bonk", "both", "defi", "general", "price", "news", "trending"}

IsUsableIntent(r) ==
  /\ "platform" \in DOMAIN r
  /\ r.platform \in Platforms
  /\ "timeframe" \in DOMAIN r

\* C3: whatever the language model returns, parseQuery returns an intent
\* whose platform is one of the eight enumerated values and whose timeframe
\* is set.
C3_AlwaysUsableIntent ==
  \A i \in 1..Len(results) : IsUsableIntent(results[i].returned)

Precedence == <<"price", "defi", "news", "trending", "sentiment">>

GroupMatched(g, lowerQuery) ==
  CASE g = "price" -> isPriceQuery(lowerQuery)
    [] g = "defi" -> isDeFiQuery(lowerQuery)
    [] g = "news" -> isNewsQuery(lowerQuery)
    [] g = "trending" -> isTrendingQuery(lowerQuery)
    [] g = "sentiment" -> isSentimentQuery(lowerQuery)

MatchedRanks(lowerQuery) ==
  { k \in 1..Len(Precedence) : GroupMatched(Precedence[k], lowerQuery) }

HighestPrecedence(lowerQuery) ==
  LET matched == MatchedRanks(lowerQuery) IN
  IF matched = {} THEN "token-launch"
  ELSE Precedence[CHOOSE k \in matched : \A m \in matched : k <= m]

\* the category an intent stands for
CategoryOf(r) ==
  IF r.platform \in {"pumpfun", "bonk", "both"} THEN "token-launch"
  ELSE IF r.platform = "general" /\ r.metric = "sentiment" THEN "sentiment"
  ELSE r.platform

\* C5: in the fallback classifier the returned category is the matched
\* keyword group of highest precedence (price > defi > news > trending >
\* sentiment), and the token-launch default only when no group matched.
C5_CategoryPrecedence ==
  LET expected == HighestPrecedence(ToLowerCase(query)) IN
  \A i \in 1..Len(results) :
    PrimaryFails(results[i].completion)
      => CategoryOf(results[i].returned) = expected

\* trending and sentiment both matched, and nothing of higher precedence
C5_Witness ==
  /\ Len(results) >= 1
  /\ PrimaryFails(results[1].completion)
  /\ MatchedRanks(ToLowerCase(query)) = {4, 5}
  /\ results[1].returned.platform = "trending"

\* C6: in the fallback classifier the time window is 1 hour if and only if
\* the query contains "hour", and 24 hours otherwise, for every category.
C6_HourWindow ==
  LET window == IF Includes(ToLowerCase(query), "hour") THEN 1 ELSE 24 IN
  \A i \in 1..Len(results) :
    PrimaryFails(results[i].completion) => results[i].returned.timeframe = window

\* C7: with the primary parser disabled, the market-cap query yields an
\* intent {category: token-launch, threshold: 19000, timeframe: 1}.
C7_ThresholdExtracted ==
  \A i \in 1..Len(results) :
    (PrimaryFails(results[i].completion) /\ query = MarketCapQuery)
      => /\ CategoryOf(results[i].returned) = "token-launch"
         /\ "threshold" \in DOMAIN results[i].returned
         /\ results[i].returned.threshold = 19000
         /\ results[i].returned.timeframe = 1

(***************************************************************************)
(* Properties of validateAndCleanData.                                     *)
(***************************************************************************)
Ran == Len(cleaned) > 0
Output == cleaned[1]

InCleaned(P(_)) == \E i \in 1..Len(Output) : P(Output[i])

\* the price field is <= 0 or absent (null/undefined)
BadPrice(item) ==
  hasOwnProperty(item, "price") /\
    (LeqZero(item.price) \/ item.price.t \in {"null", "undefined"})

\* C9: validateAndCleanData drops every record that carries a price field
\* whose value is <= 0 or null/undefined; none is in the cleaned output.
C9_NoBadPriceSurvives == Ran => ~InCleaned(BadPrice)

\* a market-cap or TVL field (marketCap, currentMcap, tvl, tvlUsd) is <= 0
BadCapOrTvl(item) ==
  \E f \in {"marketCap", "currentMcap", "tvl", "tvlUsd"} :
    hasOwnProperty(item, f) /\ LeqZero(item[f])

BadApy(item) ==
  hasOwnProperty(item, "apy") /\ (LtZero(item.apy) \/ Gt(item.apy, 1000000))

BadName(item) ==
  \/ hasOwnProperty(item, "name") /\ item.name.t = "str" /\ Trim(item.name.s) = ""
  \/ hasOwnProperty(item, "trendingRank") /\ Not(Get(item, "name"))

PassesEveryCheck(item) ==
  ~BadPrice(item) /\ ~BadCapOrTvl(item) /\ ~BadApy(item) /\ ~BadName(item)
    /\ ~(hasOwnProperty(item, "name") /\ Not(item.name))

\* C10: validateAndCleanData drops any record whose market-cap or TVL field
\* (marketCap, currentMcap, tvl or a yield pool's tvlUsd) is <= 0, whose APY
\* is < 0 or > 1,000,000, whose name is empty or whitespace-only, or that is
\* a trending record lacking a name; it drops a price record with price 0;
\* and it keeps every record that passes every check.
C10_KeptIffPassesAllChecks ==
  Ran =>
    /\ ~InCleaned(BadCapOrTvl)
    /\ ~InCleaned(BadApy)
    /\ ~InCleaned(BadName)
    /\ ~InCleaned(LAMBDA item : hasOwnProperty(item, "price") /\ item.price = Num(0))
    /\ \A i \in 1..Len(raw) :
         PassesEveryCheck(raw[i]) => \E j \in 1..Len(Output) : Output[j] = raw[i]

\* a is b with some elements left out
RECURSIVE IsSubsequence(_, _)
IsSubsequence(a, b) ==
  IF Len(a) = 0 THEN TRUE
  ELSE IF Len(b) = 0 THEN FALSE
  ELSE IF a[1] = b[1] THEN IsSubsequence(Tail(a), Tail(b))
  ELSE IsSubsequence(a, Tail(b))

\* C11: validateAndCleanData is idempotent and order-preserving: cleaning
\* its own output returns that output unchanged, and its output is a
\* subsequence of its input (no record added, modified or reordered).
C11_IdempotentOrderPreserving ==
  /\ Ran => IsSubsequence(cleaned[1], raw)
  /\ \A i \in 2..Len(cleaned) : cleaned[i] = cleaned[1]

\* one record was dropped, one kept, and the output was cleaned again
C11_Witness ==
  /\ Len(raw) = 2
  /\ Len(cleaned) = 2
  /\ raw[1] = PriceRecord(Num(0))
  /\ raw[2] = TokenRecord(Str("PEPE"), 20000)
  /\ cleaned[1] = <<raw[2]>>
  /\ cleaned[2] = <<raw[2]>>

(***************************************************************************)
(* Properties of the request handlers.                                     *)
(***************************************************************************)
IsNonEmptyString(v) == v.t = "str" /\ Len(v.s) > 0

\* C1: every POST /query whose query is a non-empty string ends with a
\* 200 response that carries a non-empty answer and a processingTime >= 0,
\* whatever the language model and the providers answered; it never ends
\* with a 500.
C1_ValidQueryAlwaysAnswered ==
  (route = "/query" /\ pc = "done" /\ IsNonEmptyString(request)) =>
    /\ response.status = 200
    /\ Len(response.answer) > 0
    /\ response.processingTime >= 0

\* C2: a request whose query is missing, empty or not a string is answered
\* with 400 and nothing else happens for it: no service is constructed, no
\* language-model call and no provider call is made, no data is fetched.
C2_InvalidRejectedBeforeCore ==
  (pc # "idle" /\ ~IsNonEmptyString(request)) =>
    /\ pc = "done"
    /\ response = BadRequest
    /\ calls = <<>>
    /\ parsedQuery = JSUndefined
    /\ data = <<>>

C2_Witness ==
  /\ route = "/query" /\ pc = "done"
  /\ request = Num(5)
  /\ response.status = 400
  /\ calls = <<>>

\* C8: when the intent's platform is pumpfun, bonk or both and it carries
\* a threshold T and a timeframe H, every token record of the 200 response
\* has currentMcap > T and was launched less than H hours before the
\* request arrived, whatever the intent's metric is.
C8_ThresholdAndWindowHonoured ==
  ( /\ route = "/query" /\ response.status = 200
    /\ platformOf(parsedQuery) \in {"pumpfun", "bonk", "both"}
    /\ Has(parsedQuery, "threshold") /\ Has(parsedQuery, "timeframe") ) =>
    \A k \in 1..Len(response.data) :
      LET record == response.data[k] IN
      hasOwnProperty(record, "currentMcap") =>
        /\ Gt(record.currentMcap, parsedQuery.threshold)
        /\ record.launchTime.n > startTime - (parsedQuery.timeframe * 3600000)

\* C12: in every QueryResult each record of data has passed the validator
\* (no price of 0, no market cap or TVL <= 0, no out-of-range APY, no empty
\* name).
C12_ReturnedRecordsValidated ==
  (route = "/query" /\ response.status = 200) =>
    \A k \in 1..Len(response.data) : passesValidation(response.data[k])

\* the variant of a record, told by its characteristic field as
\* formatResponse tells it (openai.ts:207-214)
VariantOf(record) ==
  IF hasOwnProperty(record, "trendingRank") THEN "trending"
  ELSE IF hasOwnProperty(record, "currentMcap") THEN "token"
  ELSE IF hasOwnProperty(record, "sentimentScore") THEN "sentiment"
  ELSE IF hasOwnProperty(record, "title") THEN "news"
  ELSE IF hasOwnProperty(record, "apy") THEN "yield"
  ELSE IF hasOwnProperty(record, "tvl") THEN "protocol"
  ELSE IF hasOwnProperty(record, "price") THEN "price"
  ELSE "unknown"

\* the intent set includeNews or includeSentiment
Supplemented(intent) ==
  \E f \in {"includeNews", "includeSentiment"} : Has(intent, f) /\ intent[f] = TRUE

\* C13: unless the intent set includeNews or includeSentiment, all records
\* of a QueryResult are of one variant, a combined pumpfun+bonk request
\* included.
C13_OneVariant ==
  (route = "/query" /\ response.status = 200 /\ ~Supplemented(parsedQuery)) =>
    \A j, k \in 1..Len(response.data) :
      VariantOf(response.data[j]) = VariantOf(response.data[k])

\* a combined request answered with records of both sources
C13_Witness ==
  /\ route = "/query" /\ response.status = 200
  /\ platformOf(parsedQuery) = "both"
  /\ ~Supplemented(parsedQuery)
  /\ \E j, k \in 1..Len(response.data) :
       /\ response.data[j].platform = Str("pumpfun")
       /\ response.data[k].platform = Str("bonk")

(***************************************************************************)
(* Properties of the provider chains.                                      *)
(***************************************************************************)
Chains == { "price", "bonk", "trending", "market" }

ChainOrder(chain) ==
  CASE chain = "price" -> << "CoinGecko", "CoinCap", "mock" >>
    [] chain = "bonk" -> << "Bonk API", "DexScreener", "Jupiter", "mock" >>
    [] chain = "trending" -> << "CoinGecko", "DexScreener", "Social", "mock" >>
    [] chain = "market" -> << "CoinMarketCap", "CoinGecko", "mock" >>

\* the calls made on one chain, in order
ProbesOf(chain) == SelectSeq(probes, LAMBDA p : p.chain = chain)

Usable(p) ==
  \E k \in 1..p.count : p.records[k] # JSNull /\ passesValidation(p.records[k])

\* the chains whose providers hand back records of the validator's shapes
ValidatedChains == { "price", "trending", "market", "protocols" }

\* C15: in every provider chain a real provider whose result is empty or
\* holds only records the validator rejects does not win: the next one is
\* tried, and when no real provider gave a usable record the synthetic
\* generator is called.
C15_UnusableResultDoesNotWin ==
  \A chain \in ValidatedChains :
    LET called == ProbesOf(chain) IN
    /\ \A i \in 1..Len(called) :
         (called[i].won /\ called[i].provider # "mock") => Usable(called[i])
    /\ ( /\ Len(called) > 0
         /\ \A i \in 1..Len(called) :
              called[i].provider # "mock" => ~Usable(called[i]) )
         => called[Len(called)].provider = "mock"

\* C16: whatever the providers answered, the primary record set an
\* aggregation hands back to the handler is non-empty.
C16_NeverZeroResults ==
  (pc = "supplement" /\ Len(probes) > 0) => Len(data) > 0

\* the primary aggregation ended with the synthetic generator
SyntheticPrimary ==
  pc = "supplement" /\ Len(probes) > 0 /\ probes[Len(probes)].provider = "mock"

\* the number of records the handler asked the service for
\* (query.ts:98, 101, 117, 125; part_001:229 scaled to FetchLimit)
RequestedLimit(intent) ==
  CASE platformOf(intent) \in {"pumpfun", "bonk"} -> FetchLimit
    [] platformOf(intent) = "both" -> 2 * FetchLimit
    [] platformOf(intent) = "defi" -> 20
    [] platformOf(intent) = "general" -> 50
    [] platformOf(intent) = "news" -> 20
    [] OTHER -> 0

\* C17: when the real providers of a category gave nothing and the
\* synthetic generator supplied the records, a list category (tokens,
\* protocols, yields, market data, news) hands back as many records as
\* were asked for, and a price query exactly one record per requested
\* symbol.
C17_SyntheticSizeMatchesRequest ==
  SyntheticPrimary =>
    /\ (probes[Len(probes)].chain \in {"pumpfun", "bonk", "protocols", "yields",
                                        "market", "news"}
          /\ platformOf(parsedQuery) \in KnownPlatforms)
         => Len(data) = RequestedLimit(parsedQuery)
    /\ probes[Len(probes)].chain = "price"
         => /\ Len(data) = Len(parsedQuery.cryptoSymbols)
            /\ \A k \in 1..Len(data) :
                 data[k].symbol = Str(ToUpperCase(parsedQuery.cryptoSymbols[k]))

\* the providers and generators whose records a service handed back
Winners == { probes[i].provider : i \in { j \in 1..Len(probes) : probes[j].won } }

\* the names under which metadata.sources can refer to a provider
SourceNames(provider) ==
  CASE provider = "mock" -> { "synthetic" }
    [] provider = "Bonk API" -> { "Bonk API", "Bonk Ecosystem" }
    [] provider = "Social" -> { "Social", "Social Media" }
    [] provider = "NewsAPI" -> { "NewsAPI", "News APIs" }
    [] provider = "LunarCrush" -> { "LunarCrush", "Social Sentiment" }
    [] OTHER -> { provider }

\* C18: in every QueryResult metadata.sources contains "synthetic" exactly
\* when records came from a synthetic generator, and every name in it is
\* that of a provider (or generator) whose records were handed back, never
\* one that failed or was not called.
C18_ProvenanceNamesActualProvider ==
  (route = "/query" /\ response.status = 200 /\ Len(probes) > 0) =>
    LET sources == { response.metadata.sources[k] :
                       k \in 1..Len(response.metadata.sources) }
    IN /\ ("synthetic" \in sources) <=> ("mock" \in Winners)
       /\ sources \subseteq UNION { SourceNames(w) : w \in Winners }

(***************************************************************************)
(* Properties of the combined (both) case.                                 *)
(***************************************************************************)
\* what the two services returned to the handler
PumpResult == pending.pump.result
BonkResult == pending.bonk.result

InBothCase == pc = "supplement" /\ platformOf(parsedQuery) = "both"

\* C19: for a combined intent the record list is the pump.fun result and
\* the Bonk result put together, nothing lost and nothing added, in order
\* of non-increasing market cap, records of equal market cap keeping the
\* order pump.fun before Bonk and, within a source, the source's order.
C19_StableMergeByMarketCap ==
  InBothCase =>
    LET concatenated == PumpResult.value \o BonkResult.value
        n == Len(concatenated)
    IN /\ Len(data) = n
       /\ \E f \in Permutations(1..n) :
            /\ \A i \in 1..n : data[i] = concatenated[f[i]]
            /\ \A i, j \in 1..n :
                 i < j => \/ data[i].currentMcap.n > data[j].currentMcap.n
                          \/ /\ data[i].currentMcap.n = data[j].currentMcap.n
                             /\ f[i] < f[j]

\* a pump.fun record and a Bonk record of equal market cap, the pump.fun
\* one first, below a record of greater market cap
C19_Witness ==
  /\ InBothCase
  /\ Len(data) >= 3
  /\ \E i, j \in 1..Len(data) :
       /\ i < j
       /\ data[i].platform = Str("pumpfun") /\ data[j].platform = Str("bonk")
       /\ data[i].currentMcap = data[j].currentMcap
  /\ data[1].currentMcap.n > data[Len(data)].currentMcap.n

TokensOf(list) == SelectSeq(list, LAMBDA record : VariantOf(record) = "token")

HasSettled(promise) == promise.state = "settled"
HasRejected(promise) == HasSettled(promise) /\ promise.result.threw
Fulfilled(promise) == HasSettled(promise) /\ ~promise.result.threw

\* C20: for a combined intent the pump.fun call and the Bonk call are both
\* started before either completes; the handler merges only after both have
\* completed; a response with records holds the records of both, and when
\* either call fails the response is the 500 and holds no records.
C20_BothStartedAllOrNothing ==
  /\ pending.pump.state = "none" <=> pending.bonk.state = "none"
  /\ pc = "both" =>
       /\ pending.pump.state # "none" /\ pending.bonk.state # "none"
       /\ ~(HasSettled(pending.pump) /\ HasSettled(pending.bonk))
       /\ data = <<>> /\ response.status = 0
  /\ (pending.pump.state # "none" /\ pc \in {"supplement", "format"}) =>
       /\ Fulfilled(pending.pump) /\ Fulfilled(pending.bonk)
       /\ Len(TokensOf(data)) = Len(PumpResult.value) + Len(BonkResult.value)
  /\ (pending.pump.state # "none" /\ response.status = 200) =>
       /\ Fulfilled(pending.pump) /\ Fulfilled(pending.bonk)
       /\ Len(TokensOf(response.data))
            = Len(PumpResult.value) + Len(BonkResult.value)
  /\ (HasRejected(pending.pump) \/ HasRejected(pending.bonk)) =>
       pc = "done" /\ response.status = 500

\* the Bonk call completed first, the pump.fun call second, both with
\* tokens, and the handler holds the merged list
C20_Witness ==
  /\ InBothCase
  /\ Len(probes) > 1
  /\ probes[1].chain = "bonk" /\ probes[Len(probes)].chain = "pumpfun"
  /\ Len(PumpResult.value) > 0 /\ Len(BonkResult.value) > 0
  /\ Len(data) = Len(PumpResult.value) + Len(BonkResult.value)

(***************************************************************************)
(* Properties of the default branch of the fallback classifier.            *)
(***************************************************************************)
Mentions(q, word) == Includes(ToLowerCase(q), word)

\* the handler holds the intent the fallback classifier gives the query,
\* taken from the default branch
FellBackToDefault ==
  /\ route = "/query" /\ pc \in {"switch", "both", "supplement", "format", "done"}
  /\ parsedQuery = FallbackIntent(query)
  /\ FallbackBranch(ToLowerCase(query)) = "default"

\* C21: an intent of the fallback classifier for a query that names both
\* platforms, or neither, is the combined one, with comparison set exactly
\* when the query holds "vs" or "compare", and once the primary fetch is over
\* both the pump.fun and the Bonk aggregation have been called.
C21_BothPlatformsGiveCombined ==
  (FellBackToDefault /\ (Mentions(query, "pumpfun") <=> Mentions(query, "bonk"))) =>
    /\ parsedQuery.platform = "both"
    /\ parsedQuery.comparison
         <=> (Mentions(query, "vs") \/ Mentions(query, "compare"))
    /\ pc \in {"supplement", "format"} =>
         SeqIncludes(calls, "pump.fun") /\ SeqIncludes(calls, "bonk")

(***************************************************************************)
(* Properties of the supplementary step.                                   *)
(***************************************************************************)
\* the handler runs the supplementary blocks in this step
SupplementStep == pc = "supplement" /\ pc' = "format"

\* the positions in probes' of the calls made in this step
NewProbes == (Len(probes) + 1)..Len(probes')

\* a supplementary fetch was made in this step and every one that was made
\* failed
SupplementaryFetchesFailed ==
  /\ NewProbes # {}
  /\ \A k \in NewProbes : probes'[k].provider # "mock" => ~probes'[k].won

\* C22: when the supplementary news or sentiment fetch fails, the handler
\* goes on to the answer and the records are the primary records, with
\* nothing added.
C22_FailedSupplementAddsNothing ==
  [][(SupplementStep /\ SupplementaryFetchesFailed) => data' = data]_vars

RECURSIVE RecordsWon(_, _)
\* the records the calls at positions from..Len(tried) of tried returned to
\* the handler, in call order
RecordsWon(tried, from) ==
  IF from > Len(tried) THEN <<>>
  ELSE (IF tried[from].won THEN tried[from].records ELSE <<>>)
         \o RecordsWon(tried, from + 1)

\* C23: the supplementary step leaves the primary records where they are,
\* as a prefix in unchanged order, and puts the supplementary records after
\* them in the order the supplementary calls returned them (news, then
\* sentiment); nothing is sorted.
C23_SupplementAppended ==
  [][SupplementStep => data' = data \o RecordsWon(probes', Len(probes) + 1)]_vars

\* two primary records or more, then a news record, then a sentiment record
C23_Witness ==
  /\ pc = "format" /\ Supplemented(parsedQuery)
  /\ Len(data) >= 3
  /\ \E i, j \in 1..Len(data) :
       /\ i < j /\ j < Len(data)
       /\ VariantOf(data[i]) \notin {"news", "sentiment"}
       /\ VariantOf(data[j]) \notin {"news", "sentiment"}
  /\ VariantOf(data[Len(data) - 1]) = "news"
  /\ VariantOf(data[Len(data)]) = "sentiment"

\* the conditions of the two supplementary blocks
WantsNews == Truthy(parsedQuery, "includeNews") /\ platformOf(parsedQuery) # "news"
WantsSentiment ==
  Truthy(parsedQuery, "includeSentiment") /\ Has(parsedQuery, "cryptoSymbols")

\* C24: the supplementary fetch of a request is started before its primary
\* fetch has completed: once the handler holds the primary records, the
\* supplementary news or sentiment request has already been made.
C24_SupplementStartedBeforePrimaryDone ==
  pc = "supplement" =>
    /\ WantsNews => SeqIncludes(calls, "news")
    /\ WantsSentiment => SeqIncludes(calls, "sentiment")

(***************************************************************************)
(* Properties of the calls of one request.                                 *)
(***************************************************************************)
\* the number of entries of sq equal to x
CountOf(sq, x) == Cardinality({ k \in 1..Len(sq) : sq[k] = x })

\* C25: within one request no provider operation is called twice: no two
\* calls of the trace go to the same provider on the same chain (the
\* synthetic generators are not providers), and the language model is
\* called at most once to parse and once to format.
C25_EachCallAtMostOnce ==
  /\ \A i, j \in 1..Len(probes) :
       (i < j /\ probes[i].provider # "mock") =>
         ~(probes[i].chain = probes[j].chain
             /\ probes[i].provider = probes[j].provider)
  /\ CountOf(calls, "openai") <= 2

(***************************************************************************)
(* Properties of formatResponse.                                           *)
(***************************************************************************)
\* formatResponse was applied
Formatted == Len(results) = 1 /\ "prompts" \in DOMAIN results[1]

\* C26: when the data prompt was sent and its call failed, the fallback
\* prompt is sent next, before any static template is returned.
C26_FallbackPromptBeforeStatic ==
  (Formatted /\ results[1].prompts # <<>> /\ results[1].prompts[1] = "format"
     /\ ~Resolved(results[1].completion)) =>
    results[1].prompts = <<"format", "intelligent fallback">>

\* C27: formatResponse returns a non-empty string and does not throw,
\* whatever the records and whatever the outcome of the language-model call.
C27_AlwaysNonEmptyAnswer ==
  Formatted =>
    /\ ~results[1].returned.threw
    /\ Len(results[1].returned.value) > 0

\* the validator drops every record of a non-empty sequence
AllInvalid(items) ==
  /\ Len(items) > 0
  /\ \A k \in 1..Len(items) :
       ~validationThrows(items[k]) /\ ~passesValidation(items[k])

\* one of the three static templates keyed on the query's words
IsKeywordTemplate(answer) == Includes(answer, "Processing time: ")

\* the language model's text followed by the note on filtered data
IsFallbackAnswer(answer) ==
  Includes(answer, "Note: Data validation filtered out invalid results")

\* C30: when every incoming record is invalid, formatResponse does not send
\* the data prompt; it sends the fallback prompt once, returns the model's
\* answer when that call succeeds and a static keyword template only when
\* it fails, and never throws.
C30_AllInvalidUsesFallbackOnce ==
  (Formatted /\ AllInvalid(raw)) =>
    /\ results[1].prompts = <<"intelligent fallback">>
    /\ ~results[1].returned.threw
    /\ IF Resolved(results[1].completion)
         THEN /\ IsFallbackAnswer(results[1].returned.value)
              /\ ~IsKeywordTemplate(results[1].returned.value)
         ELSE /\ IsKeywordTemplate(results[1].returned.value)
              /\ ~IsFallbackAnswer(results[1].returned.value)

\* two records, both dropped, and the fallback call fails
C30_Witness ==
  /\ Formatted
  /\ raw = << PriceRecord(Num(0)), TokenRecord(Str("PEPE"), 0) >>
  /\ results[1].completion = Reject("network")
  /\ results[1].prompts = <<"intelligent fallback">>
  /\ IsKeywordTemplate(results[1].returned.value)

(***************************************************************************)
(* Properties of provider failures.                                        *)
(***************************************************************************)
\* C28: whatever a provider answers (an error, a timeout, a body of the
\* wrong shape), the service method that called it returns and the request
\* goes on: no step in which providers were called ends with the 500
\* response.
C28_ProviderFailureNeverSurfaces ==
  [][Len(probes') > Len(probes) => response'.status # 500]_vars

(***************************************************************************)
(* Concurrent requests.  Every invocation of the handler declares its own  *)
(* startTime, query, services, parsedQuery, data and metadata              *)
(* (query.ts:13-45) and the services keep nothing between calls, so an     *)
(* invocation resumed after an await reads and writes its own variables.   *)
(* The event loop resumes the invocations in any order.  What the outside  *)
(* world answers one request, the clock readings included, is fixed with   *)
(* the request.  The cases of the switch covered are price and pumpfun.    *)
(***************************************************************************)
MaxConcurrent == 2

PairQueries == { "What's the SOL price?", MarketCapQuery }

ProvidersUp ==
  [parse |-> Content(JSONText([platform |-> "price", metric |-> "price",
                               timeframe |-> 1,
                               cryptoSymbols |-> <<"BTC", "XYZ">>,
                               includeNews |-> TRUE])),
   prices |-> [gecko |-> GeckoQuotes([solana |-> [usd |-> Num(178),
                                                  usd_market_cap |-> Num(80000)],
                                      bitcoin |-> [usd |-> Num(67000)]]),
               coincap |-> Failed("unused"), draw |-> 42],
   pump |-> [script |-> AnsweredAt(1, ArrayOf(<<FreshRich, FreshPoor>>)),
             draws |-> DrawsFrom(PumpDrawPool, 0)],
   news |-> Body([t |-> "object",
                  articles |-> << [title |-> Str("ETF inflows hit a record"),
                                   url |-> Str("https://example.org/etf"),
                                   source |-> "Reuters"] >>]),
   sentiment |-> Failed("unauthorized"),
   format |-> Content(Text("Here is what I found.")),
   clock |-> StartMs + TickMs, elapsed |-> 1200]

ProvidersDown ==
  [parse |-> Reject("network"),
   prices |-> [gecko |-> Failed("network"), coincap |-> Failed("network"),
               draw |-> 7],
   pump |-> [script |-> Always(Failed("network")),
             draws |-> DrawsFrom(PumpDrawPool, 0)],
   news |-> Failed("unauthorized"),
   sentiment |-> Failed("unauthorized"),
   format |-> Reject("network"),
   clock |-> StartMs, elapsed |-> 3000]

ProvidersMixed ==
  [parse |-> Reject("timeout"),
   prices |-> ProvidersUp.prices,
   pump |-> [script |-> AnsweredAt(2, ArrayOf(<<FreshRich, JSNull>>)),
             draws |-> DrawsFrom(PumpDrawPool, 0)],
   news |-> Failed("unauthorized"),
   sentiment |-> Failed("unauthorized"),
   format |-> Content(Text("")),
   clock |-> StartMs, elapsed |-> 1500]

PairWorlds == { ProvidersUp, ProvidersDown, ProvidersMixed }

\* the variables of the handler's body when the invocation begins
FreshLocals ==
  [pc |-> "idle", parsedQuery |-> JSUndefined, data |-> <<>>,
   metadata |-> [dataType |-> "general", sources |-> <<>>, totalResults |-> 0],
   response |-> [status |-> 0]]

\* lines 50-67: the primary fetch of cases price and pumpfun
primaryFetch(intent, w) ==
  CASE platformOf(intent) = "price" ->
         IF Has(intent, "cryptoSymbols") /\ Len(intent.cryptoSymbols) > 0
           THEN Returned([data |-> getPrices(intent.cryptoSymbols, w.prices.gecko,
                                            w.prices.coincap, w.prices.draw).prices,
                          metadata |-> Meta("prices", <<"CoinGecko", "CoinCap">>)])
           ELSE Returned([data |-> <<>>, metadata |-> FreshLocals.metadata])
    [] platformOf(intent) = "pumpfun" ->
         LET tokens == pumpFunTokens(intent, w.pump, w.clock) IN
         IF tokens.threw THEN tokens
         ELSE Returned([data |-> tokens.value,
                        metadata |-> Meta("tokens", <<"pump.fun">>)])

\* lines 146-162
supplementaryFetch(intent, primary, metadataSoFar, w) ==
  LET wantsNews == Truthy(intent, "includeNews") /\ platformOf(intent) # "news"
      wantsSentiment == Truthy(intent, "includeSentiment")
                          /\ Has(intent, "cryptoSymbols")
      newsData == IF wantsNews THEN getCryptoNews(5, w.news).data ELSE <<>>
      sentimentData ==
        IF wantsSentiment
          THEN getSocialSentiment(intent.cryptoSymbols,
                 SameForAll(intent.cryptoSymbols, w.sentiment), 10)
          ELSE <<>>
      all == Spread(Spread(primary, newsData), sentimentData)
  IN [data |-> all,
      metadata |-> [dataType |-> metadataSoFar.dataType,
                    sources |-> metadataSoFar.sources
                      \o (IF wantsNews THEN <<"News APIs">> ELSE <<>>)
                      \o (IF wantsSentiment THEN <<"Social Sentiment">> ELSE <<>>),
                    totalResults |-> Len(all)]]

\* the catch block of the handler
Caught(local, what, w) ==
  [local EXCEPT !.pc = "done",
                !.response = [status |-> 500, error |-> "Failed to process query",
                              message |-> what, processingTime |-> w.elapsed]]

\* the stretch of the handler from the await it stands at to the next one
HandlerStep(local, req) ==
  LET w == req.world IN
  CASE local.pc = "idle" -> [local EXCEPT !.pc = "parse"]
    [] local.pc = "parse" ->
         [local EXCEPT !.pc = "switch",
                       !.parsedQuery = parseQuery(req.query, w.parse)]
    [] local.pc = "switch" ->
         LET fetched == primaryFetch(local.parsedQuery, w) IN
         IF fetched.threw THEN Caught(local, fetched.error, w)
         ELSE [local EXCEPT !.pc = "supplement", !.data = fetched.value.data,
                            !.metadata = fetched.value.metadata]
    [] local.pc = "supplement" ->
         LET more == supplementaryFetch(local.parsedQuery, local.data,
                                        local.metadata, w) IN
         [local EXCEPT !.pc = "format", !.data = more.data,
                       !.metadata = more.metadata]
    [] local.pc = "format" ->
         LET answer == formatResponse(req.query, local.data, w.elapsed,
                                      w.format) IN
         IF answer.threw THEN Caught(local, answer.error, w)
         ELSE [local EXCEPT !.pc = "done",
                 !.response = [status |-> 200, query |-> req.query,
                               answer |-> answer.value, data |-> local.data,
                               metadata |-> local.metadata,
                               processingTime |-> w.elapsed]]

\* a variant in which the variables of the handler's body are declared once,
\* at module level, so that every invocation works on those of the first
ClosureShared(all, id) == all[1].local

\* the variables a resumed invocation reads
Closure(all, id) == all[id].local

InitPair ==
  /\ invocations \in [1..MaxConcurrent ->
                        { [request |-> [query |-> q, world |-> w],
                           local |-> FreshLocals]
                            : q \in PairQueries, w \in PairWorlds }]
  /\ query = ""
  /\ results = <<>>
  /\ raw = <<>>
  /\ cleaned = <<>>
  /\ route = ""
  /\ request = JSUndefined
  /\ pc = "idle"
  /\ startTime = 0
  /\ now = 0
  /\ parsedQuery = JSUndefined
  /\ data = <<>>
  /\ metadata = [dataType |-> "general", sources |-> <<>>, totalResults |-> 0]
  /\ response = [status |-> 0]
  /\ calls = <<>>
  /\ probes = <<>>
  /\ pending = [pump |-> [state |-> "none"], bonk |-> [state |-> "none"]]

\* the event loop resumes invocation id
Resume(id) ==
  /\ Closure(invocations, id).pc # "done"
  /\ invocations' =
       [invocations EXCEPT
          ![id].local = HandlerStep(Closure(invocations, id), invocations[id].request)]
  /\ UNCHANGED <<query, results, raw, cleaned, route, request, pc, startTime, now,
                  parsedQuery, data, metadata, response, calls, probes, pending>>

NextPair == \E id \in 1..MaxConcurrent : Resume(id)

SpecPair == InitPair /\ [][NextPair]_vars

RECURSIVE AloneAfter(_, _)
\* the variables of a request processed with no other request in progress,
\* after k stretches of the handler
AloneAfter(req, k) ==
  IF k = 0 THEN FreshLocals
  ELSE LET before == AloneAfter(req, k - 1) IN
       IF before.pc = "done" THEN before ELSE HandlerStep(before, req)

HasRecordFor(records, symbol) ==
  \E k \in 1..Len(records) : records[k].symbol = Str(ToUpperCase(symbol))

\* the handler holds the result of getPrices for the intent's symbols
PricesFetched ==
  /\ route = "/query" /\ pc = "supplement" /\ platformOf(parsedQuery) = "price"
  /\ Len(ProbesOf("price")) > 0

\* C31: whenever CoinGecko's result lacks a record for a requested symbol,
\* getPrices goes on to CoinCap, and the list it returns holds a record for
\* every requested symbol (the mock generator can supply any symbol).
C31_CoinCapConsultedForMissingSymbols ==
  PricesFetched =>
    LET called == ProbesOf("price")
        symbols == parsedQuery.cryptoSymbols
    IN /\ (\E k \in 1..Len(symbols) : ~HasRecordFor(called[1].records, symbols[k]))
            => (Len(called) > 1 /\ called[2].provider = "CoinCap")
       /\ \A k \in 1..Len(symbols) : HasRecordFor(data, symbols[k])

(***************************************************************************)
(* Properties of the static templates of formatResponse.                   *)
(***************************************************************************)
\* formatResponse returned a static template of its catch block: the records
\* passed validation at least in part and the data prompt's call failed
StaticReturned ==
  /\ Formatted /\ Len(raw) > 0
  /\ ~results[1].returned.threw
  /\ Len(validateAndCleanData(raw)) > 0
  /\ ~Resolved(results[1].completion)

\* C32: the records named or counted in a static template are those of the
\* cleaned set: the answer is the template filled from the records the
\* validator kept, and names no price of 0.
C32_StaticTemplateFromCleanedOnly ==
  StaticReturned =>
    LET cleanedData == validateAndCleanData(raw) IN
    /\ \E t \in ProcessingTimes :
         results[1].returned.value = StaticAnswer(cleanedData, cleanedData, t)
    /\ ~Includes(results[1].returned.value, ": $0")

(***************************************************************************)
(* Properties of the variant detection of formatResponse.                  *)
(***************************************************************************)
\* the summary written for a record's variant, the variant being told by
\* the fields that only it carries (part_002:29-42, types)
OwnSummary(record) ==
  IF hasOwnProperty(record, "trendingRank") THEN "trending cryptocurrencies"
  ELSE IF hasOwnProperty(record, "marketCap") /\ hasOwnProperty(record, "rank")
    THEN "market data"
  ELSE IF hasOwnProperty(record, "currentMcap") THEN "tokens"
  ELSE IF hasOwnProperty(record, "sentimentScore") THEN "social sentiment data"
  ELSE IF hasOwnProperty(record, "title") THEN "news articles"
  ELSE IF hasOwnProperty(record, "apy") THEN "yield farming pools"
  ELSE IF hasOwnProperty(record, "tvl") THEN "DeFi protocols"
  ELSE IF hasOwnProperty(record, "price") /\ hasOwnProperty(record, "symbol")
    THEN "prices"
  ELSE "general"

\* the data prompt was built over records that all passed validation
DataPromptBuilt ==
  /\ Formatted /\ Len(raw) > 0
  /\ results[1].prompts = <<"format">>
  /\ validateAndCleanData(raw) = raw

\* C33: the detection selects, for the variant of the first record, that
\* variant's own summary: trending records get the trending summary,
\* market-data records the market-data summary, and so on.
C33_VariantGetsOwnSummary ==
  DataPromptBuilt => results[1].dataType = OwnSummary(raw[1])

(***************************************************************************)
(* One response per request.  The handler's continuations are run by the   *)
(* event loop as soon as the awaited call has settled, and every outbound  *)
(* call is taken to settle: a handler that has not responded is eventually *)
(* resumed and moves to its next position.                                 *)
(***************************************************************************)
ProgramPoints ==
  {"idle", "parse", "switch", "both", "supplement", "format", "done"}

\* the handler leaves its position.  Within Spec a step that changes pc is
\* a step of Next, and ENABLED <<Continue>>_pc is pc # "done", which is where
\* Next has a step to take.
Continue == pc # "done" /\ pc' \in ProgramPoints

SpecLive == Spec /\ WF_pc(Continue)

\* a response has been sent
Responded == response.status # 0

\* the three responses of the handler
IsResponse(r) ==
  \/ r = BadRequest
  \/ r.status = 200 /\ "answer" \in DOMAIN r
  \/ r.status = 500 /\ r.error = "Failed to process query"
       /\ (route = "/query" => r.processingTime \in 0..(now - startTime))

\* the outbound calls of one request: the calls of the handler and the
\* providers tried inside the service methods
MaxCallsPerRequest == 12

\* C34: every request eventually receives a response, which is the 400, the
\* 200 or the 500 with the elapsed time; once sent it is never replaced by
\* another one and the handler takes no further step; the number of calls
\* made for the request is bounded.
C34_ExactlyOneResponse ==
  /\ <>Responded
  /\ [](Responded => IsResponse(response) /\ pc = "done")
  /\ [][Responded => UNCHANGED vars]_vars
  /\ [](Len(calls) + Len(probes) <= MaxCallsPerRequest)

\* a request answered 500 from the catch block after two provider calls
C34_Witness ==
  /\ route = "/query" /\ pc = "done"
  /\ response.status = 500 /\ Len(calls) >= 3 /\ Len(probes) >= 2

(***************************************************************************)
(* Properties of the 200 response's metadata.                              *)
(***************************************************************************)
\* the handler answered 200
Answered == route = "/query" /\ response.status = 200

\* every count the text states after the word Found is n
StatesCount(text, n) ==
  \A i \in 1..Len(text) :
    (i + 5 <= Len(text) /\ SubSeq(text, i, i + 5) = "Found ") =>
      /\ i + 6 + Len(ToString(n)) <= Len(text)
      /\ SubSeq(text, i + 6, i + 6 + Len(ToString(n))) = ToString(n) \o " "

\* C35: in every 200 response metadata.totalResults is the number of
\* records in data, primary plus supplementary, and the count stated by the
\* answer-synthesis step is that number.
C35_TotalResultsIsDataLength ==
  Answered =>
    /\ response.metadata.totalResults = Len(response.data)
    /\ StatesCount(response.answer, response.metadata.totalResults)

\* primary and supplementary records, counted in a template answer
C35_Witness ==
  /\ Answered
  /\ Len(response.data) >= 3
  /\ VariantOf(response.data[1]) # VariantOf(response.data[Len(response.data)])
  /\ Includes(response.answer, "Found " \o ToString(Len(response.data)) \o " ")

\* the variants QueryResult declares for metadata.dataType
DeclaredDataTypes ==
  {"tokens", "protocols", "yields", "prices", "news", "trending", "sentiment"}

\* C36: in every 200 response metadata.dataType is one of the seven declared
\* variants and metadata.sources is not empty, whatever the intent, a price
\* intent with an absent or empty symbol list included.
C36_DeclaredDataTypeAndSources ==
  Answered =>
    /\ response.metadata.dataType \in DeclaredDataTypes
    /\ Len(response.metadata.sources) > 0

(***************************************************************************)
(* Properties of the DeFiLlama queries.                                    *)
(***************************************************************************)
\* the handler holds the result of the defi case for an intent with a chain
DefiFetchedOn(metric) ==
  /\ route = "/query" /\ pc = "supplement"
  /\ platformOf(parsedQuery) = "defi" /\ metricOf(parsedQuery) = metric
  /\ Len(chainOfIntent(parsedQuery)) > 0

\* C37: every record returned by getTopYieldFarms(chain, n) and by
\* getTopProtocolsByTVL(chain, n) is on the requested chain, whether the
\* records came from the provider or from the mock generator.
C37_ChainFilterHonoured ==
  LET chain == chainOfIntent(parsedQuery) IN
  /\ DefiFetchedOn("apy") =>
       \A k \in 1..Len(data) :
         ToLowerCase(data[k].chain.s) = ToLowerCase(chain[1])
  /\ DefiFetchedOn("tvl") =>
       \A k \in 1..Len(data) : SeqIncludes(data[k].chains, Capitalize(chain[1]))

(***************************************************************************)
(* Specification of the two top-n queries of DeFiLlamaService on one       *)
(* provider answer each: query is the chain ("" when none is given), raw   *)
(* holds the limit and the two answers, results the lists returned.        *)
(***************************************************************************)
DefiChains == { "", "solana", "ethereum" }

DefiLimits == 0..FetchLimit

InitDefi ==
  /\ query \in DefiChains
  /\ raw \in { << [limit |-> n, protocols |-> protocols, yields |-> yields] >> :
                 n \in DefiLimits, protocols \in ProtocolResponses,
                 yields \in YieldResponses }
  /\ cleaned = <<>>
  /\ results = <<>>
  /\ NoRequest

\* if (chain): the empty string counts as no chain
ChainGiven == IF query = "" THEN <<>> ELSE <<query>>

Asked(method) == \E k \in 1..Len(results) : results[k].method = method

TopProtocolsByTVL ==
  /\ ~Asked("getTopProtocolsByTVL")
  /\ results' = Append(results,
       [method |-> "getTopProtocolsByTVL",
        fetched |-> getProtocols(raw[1].protocols),
        returned |-> getTopProtocolsByTVL(ChainGiven, raw[1].limit,
                                          getProtocols(raw[1].protocols))])
  /\ UNCHANGED <<query, raw, cleaned>>
  /\ UNCHANGED handlerVars

TopYieldFarms ==
  /\ ~Asked("getTopYieldFarms")
  /\ results' = Append(results,
       [method |-> "getTopYieldFarms",
        fetched |-> getYieldFarms(ChainGiven, raw[1].yields),
        returned |-> Returned(getTopYieldFarms(ChainGiven, raw[1].limit,
                                               raw[1].yields))])
  /\ UNCHANGED <<query, raw, cleaned>>
  /\ UNCHANGED handlerVars

NextDefi == TopProtocolsByTVL \/ TopYieldFarms

SpecDefi == InitDefi /\ [][NextDefi]_vars

\* list holds at most n records, each one of those fetched, no record more
\* often than it was fetched
TopOf(list, n, fetched) ==
  /\ Len(list) <= n
  /\ \A k \in 1..Len(list) :
       Cardinality({j \in 1..Len(list) : list[j] = list[k]})
         <= Cardinality({j \in 1..Len(fetched) : fetched[j] = list[k]})

\* the numbers under field do not increase along list
NonIncreasing(list, field) ==
  \A i, j \in 1..Len(list) : i < j => list[i][field].n >= list[j][field].n

\* C38: getTopProtocolsByTVL(chain, n) returns at most n of the fetched
\* protocols in non-increasing TVL order; getTopYieldFarms(chain, n) returns
\* at most n of the fetched pools in non-increasing APY order, each with
\* apy > 0 and tvlUsd > 10000.
C38_TopNSortedSubset ==
  \A k \in 1..Len(results) :
    LET r == results[k] IN
    ("method" \in DOMAIN r /\ ~r.returned.threw) =>
      /\ TopOf(r.returned.value, raw[1].limit, r.fetched)
      /\ r.method = "getTopProtocolsByTVL" =>
           (Len(r.returned.value) > 1 => NonIncreasing(r.returned.value, "tvl"))
      /\ r.method = "getTopYieldFarms" =>
           /\ NonIncreasing(r.returned.value, "apy")
           /\ \A i \in 1..Len(r.returned.value) :
                /\ r.returned.value[i].apy.n > 0
                /\ r.returned.value[i].tvlUsd.n > 10000

\* both queries cut a longer list: two of three protocols, and two pools of
\* the three that pass the filter, the provider's order being another one
C38_Witness ==
  /\ Len(results) = 2 /\ Len(raw) = 1 /\ "limit" \in DOMAIN raw[1]
  /\ raw[1].limit = 2 /\ query = ""
  /\ \A k \in 1..2 :
       /\ ~results[k].returned.threw
       /\ Len(results[k].returned.value) = 2
       /\ Len(results[k].fetched) > 2
  /\ \E k \in 1..2 :
       /\ results[k].method = "getTopYieldFarms"
       /\ results[k].returned.value[1] # results[k].fetched[1]

(***************************************************************************)
(* Properties of the mock endpoint.                                        *)
(***************************************************************************)
SimpleAnswered == route = "/simple-query" /\ response.status = 200

\* C39: the count stated in the answer of /simple-query is the number of
\* records returned, and when the answer says that tokens reached over
\* $19,000 (or over $100,000) market cap, every returned record has a market
\* cap strictly over that amount.
C39_SimpleAnswerMatchesRecords ==
  SimpleAnswered =>
    /\ Includes(response.answer, ToString(Len(response.data)) \o " tokens")
    /\ Includes(response.answer, "over $19,000") =>
         \A k \in 1..Len(response.data) : response.data[k].currentMcap.n > 19000
    /\ Includes(response.answer, "over $100,000") =>
         \A k \in 1..Len(response.data) : response.data[k].currentMcap.n > 100000

====
